---- MODULE Spec2Model ----
(***************************************************************************)
(* A model of tibo, the TI-BASIC optimizer: numeric-literal strategies,    *)
(* the strategy framework, label-name optimization, parenthesis            *)
(* optimization and stripping, and the parse / reconstruct pipeline.       *)
(*                                                                         *)
(* Tokens are integers: a one-byte token is its byte, a two-byte token     *)
(* TwoByte(a, b) is 256 * a + b.                                           *)
(***************************************************************************)
EXTENDS Integers, Sequences, FiniteSets, TLC

VARIABLES
    pc,        \* position in the pipeline
    item,      \* the Float being emitted
    config,    \* Config: priority and whether mrov >= EARLIEST_COLOR
    strategy,  \* the strategy whose tokens were emitted
    tokens,    \* the token vector produced by the last reconstruct
    parsed,    \* the result of parsing tokens again
    lines,     \* Program.lines
    lines0,    \* Program.lines as parsed, before any pass
    expr,      \* the Expression being optimized
    savings,   \* the value returned by optimize_parentheses
    stripped,  \* the token vector after strip_closing_parenthesis
    source,    \* the token stream handed to Program::parse
    round,     \* number of parse/reconstruct rounds done
    result     \* the value returned by the analysis or parser under study

vars == <<pc, item, config, strategy, tokens, parsed, lines, lines0, expr,
          savings, stripped, source, round, result>>

----------------------------------------------------------------------------
(* Bounds of the model.                                                    *)

MaxSigFigs == 2
MaxDigit == 1

----------------------------------------------------------------------------
(* Generic helpers.                                                        *)

Max(a, b) == IF a >= b THEN a ELSE b

Abs(a) == IF a < 0 THEN 0 - a ELSE a

Repeat(x, n) == [i \in 1..n |-> x]

None == [none |-> TRUE]

Some(x) == [none |-> FALSE, val |-> x]

----------------------------------------------------------------------------
(* Tokens.                                                                 *)

TokDecimalPoint == 58
TokSciE == 59
TokNegate == 176
TokZero == 48
TokPi == 172
TokEuler == 47921

TwoByte(a, b) == 256 * a + b

is_numeric(t) == t >= 48 /\ t <= 57

is_alpha(t) == t >= 65 /\ t <= 91

is_alphanumeric(t) == is_alpha(t) \/ is_numeric(t)

ByteLen(toks) == Len(toks) + Cardinality({i \in 1..Len(toks) : toks[i] >= 256})

----------------------------------------------------------------------------
(* tifloats::Float: sign, exponent and the significant figures (the        *)
(* mantissa digits between the first and the last nonzero digit).          *)

MIN_EXPONENT == 0 - 99
MAX_EXPONENT == 99
MANTISSA_DIGITS == 14

Float(neg, exp, digs) == [neg |-> neg, exp |-> exp, digs |-> digs]

FloatZero == Float(FALSE, 0, <<>>)

FloatPi == Float(FALSE, 0, <<3, 1, 4, 1, 5, 9, 2, 6, 5, 3, 5, 8, 9, 8>>)

FloatEuler == Float(FALSE, 0, <<2, 7, 1, 8, 2, 8, 1, 8, 2, 8, 4, 5, 9>>)

significant_figures(f) == f.digs

shift(f, n) == [f EXCEPT !.exp = f.exp + n]

RECURSIVE TrimTrailingZeros(_)
TrimTrailingZeros(d) ==
    IF d = <<>> THEN d
    ELSE IF d[Len(d)] = 0 THEN TrimTrailingZeros(SubSeq(d, 1, Len(d) - 1))
    ELSE d

\* Float::new(neg, exponent, Float::mantissa_from(digits))
FloatNew(neg, exp, digits) ==
    LET d == TrimTrailingZeros(digits) IN
    IF exp < MIN_EXPONENT \/ exp > MAX_EXPONENT \/ Len(d) > MANTISSA_DIGITS
    THEN None
    ELSE Some(Float(neg, exp, d))

----------------------------------------------------------------------------
(* WriteDigits: write the number digit by digit.                           *)

DIGIT_COST == 1976
FRAC_DIGIT_COST == 1867
SHIFTING_COST == 79
BASE_COST == 5020
ZERO_SIGFIG_COST == 62
FRAC_LEADING_ZERO_COST == 1422
DECIMAL_POINT_COST == 1123

WriteDigitsExists(f) == TRUE

WriteDigitsSizeCost(f) ==
    IF WriteDigitsExists(f)
    THEN Some(1 + Max(Abs(f.exp), Len(significant_figures(f)))
                + (IF f.neg THEN 1 ELSE 0))
    ELSE None

\* DigitLoopCost with the shifting cost at the odd indices
RECURSIVE DigitLoopCostOddShift(_, _, _)
DigitLoopCostOddShift(digits, exponent, n) ==
    IF n = 0 THEN 0
    ELSE LET index == n - 1 IN
         DigitLoopCostOddShift(digits, exponent, n - 1)
         + (IF index > exponent THEN FRAC_DIGIT_COST ELSE DIGIT_COST)
         + (IF index % 2 = 1 THEN SHIFTING_COST ELSE 0)
         + (IF digits[n] = 0 THEN ZERO_SIGFIG_COST ELSE 0)

\* the loop over the significant figures in WriteDigits::speed_cost
RECURSIVE DigitLoopCost(_, _, _)
DigitLoopCost(digits, exponent, n) ==
    IF n = 0 THEN 0
    ELSE LET index == n - 1 IN
         DigitLoopCost(digits, exponent, n - 1)
         + (IF index > exponent THEN FRAC_DIGIT_COST ELSE DIGIT_COST)
         + (IF index % 2 = 0 THEN SHIFTING_COST ELSE 0)
         + (IF digits[n] = 0 THEN ZERO_SIGFIG_COST ELSE 0)

WriteDigitsSpeedValue(f) ==
    LET exponent == f.exp
        digits == significant_figures(f)
        trailing_zero_count == Abs(exponent) + 1 - Len(digits)
    IN  BASE_COST
        + (IF exponent < 0
           THEN FRAC_LEADING_ZERO_COST * (Abs(exponent) - 1)
           ELSE IF Len(digits) < exponent + 1
           THEN (DIGIT_COST + ZERO_SIGFIG_COST) * trailing_zero_count
                + SHIFTING_COST
                  * (((1 - (Len(digits) % 2)) + trailing_zero_count) \div 2)
           ELSE 0)
        + (IF Len(digits) > exponent + 1 THEN DECIMAL_POINT_COST ELSE 0)
        + DigitLoopCost(digits, exponent, Len(digits))

WriteDigitsSpeedCost(f) ==
    IF WriteDigitsExists(f) THEN Some(WriteDigitsSpeedValue(f)) ELSE None

DigitTokens(digits) == [i \in 1..Len(digits) |-> TokZero + digits[i]]

WriteDigitsReconstruct(f) ==
    LET sig_figs == significant_figures(f)
        exponent == f.exp
        sign == IF f.neg THEN <<TokNegate>> ELSE <<>>
        n == Len(sig_figs)
    IN  IF exponent < 0
        THEN sign \o <<TokDecimalPoint>> \o Repeat(TokZero, Abs(exponent) - 1)
                  \o DigitTokens(sig_figs)
        ELSE IF n > 1 + exponent
        THEN sign \o DigitTokens(SubSeq(sig_figs, 1, 1 + exponent))
                  \o <<TokDecimalPoint>>
                  \o DigitTokens(SubSeq(sig_figs, 2 + exponent, n))
        ELSE IF exponent >= n
        THEN sign \o DigitTokens(sig_figs) \o Repeat(TokZero, exponent + 1 - n)
        ELSE sign \o DigitTokens(sig_figs)

----------------------------------------------------------------------------
(* ColorConstant: the color tokens BLUE..GRAY are the numbers 10..24.      *)

COLOR_SPEED_COST == 5898
COLOR_SIZE_COST == 2

\* (tifloat 10 ..= tifloat 24).contains(item)
InColorRange(f) ==
    LET d == significant_figures(f)
        tens == IF Len(d) >= 1 THEN d[1] ELSE 0
        ones == IF Len(d) >= 2 THEN d[2] ELSE 0
        whole == 10 * tens + ones
    IN  /\ ~f.neg
        /\ f.exp = 1
        /\ Len(d) >= 1
        /\ \/ whole < 24
           \/ whole = 24 /\ Len(d) <= 2

ColorConstantExists(f, color) ==
    /\ color
    /\ InColorRange(f)
    /\ Len(significant_figures(f)) <= 2

ColorConstantSizeCost(f, color) ==
    IF ColorConstantExists(f, color) THEN Some(COLOR_SIZE_COST) ELSE None

ColorConstantSpeedCost(f, color) ==
    IF ColorConstantExists(f, color) THEN Some(COLOR_SPEED_COST) ELSE None

ColorConstantReconstruct(f) ==
    LET sig_figs == significant_figures(f)
        lower_byte == (65 - 10) + sig_figs[1] * 10
                      + (IF Len(sig_figs) = 2 THEN sig_figs[2] ELSE 0)
    IN  <<TwoByte(239, lower_byte)>>

----------------------------------------------------------------------------
(* MathConstant: pi and e.                                                 *)

PI_SPEED_COST == 4819
EULER_SPEED_COST == 4784

MathConstantKind(f) ==
    IF f = FloatPi THEN Some(TokPi)
    ELSE IF f = FloatEuler THEN Some(TokEuler)
    ELSE None

MathConstantExists(f) == ~MathConstantKind(f).none

MathConstantSizeCost(f) ==
    IF MathConstantExists(f)
    THEN Some(IF MathConstantKind(f).val < 256 THEN 1 ELSE 2)
    ELSE None

MathConstantSpeedCost(f) ==
    IF MathConstantExists(f)
    THEN Some(IF MathConstantKind(f).val = TokPi THEN PI_SPEED_COST
              ELSE EULER_SPEED_COST)
    ELSE None

MathConstantReconstruct(f) == <<MathConstantKind(f).val>>

----------------------------------------------------------------------------
(* IntegerWithExponent: <mantissa>|E<exponent>, all significant figures    *)
(* before the |E.                                                          *)

EXPONENT_DECADE_COST == 61
EXPONENT_NEGATION_COST == 1078
EXPONENT_TENS_COST == 1150
EXPONENT_BASE_COST == 3546

InExponentRange(x) == x >= MIN_EXPONENT /\ x <= MAX_EXPONENT

IntegerAdjust(f) == shift(f, 0 - (f.exp - Len(significant_figures(f)) + 1))

exponent_speed_cost(exponent) ==
    IF InExponentRange(exponent)
    THEN LET decades == Abs(exponent) \div 10 IN
         Some(EXPONENT_BASE_COST
              + (IF exponent < 0 THEN EXPONENT_NEGATION_COST ELSE 0)
              + (IF decades # 0
                 THEN EXPONENT_TENS_COST + EXPONENT_DECADE_COST * decades
                 ELSE 0))
    ELSE None

\* the size of the exponent part: 0..=9 => 1, -9..=-1 | 10..=99 => 2,
\* -99..=-10 => 3
ExponentSize(x) ==
    IF x >= 0 /\ x <= 9 THEN 1
    ELSE IF (x >= 0 - 9 /\ x <= 0 - 1) \/ (x >= 10 /\ x <= 99) THEN 2
    ELSE 3

IntegerWithExponentExists(f) ==
    InExponentRange(f.exp - IntegerAdjust(f).exp)

\* size_cost with the match arm for shifts below -9 left out
IntegerWithExponentSizeCostMissingArm(f) ==
    IF IntegerWithExponentExists(f)
         /\ f.exp - IntegerAdjust(f).exp >= 0 - 9
    THEN Some(1 + (IF significant_figures(f) = <<1>> THEN 0
                   ELSE Len(significant_figures(f)))
                + ExponentSize(f.exp - IntegerAdjust(f).exp))
    ELSE None

IntegerWithExponentSizeCost(f) ==
    IF IntegerWithExponentExists(f)
    THEN Some(1 + (IF significant_figures(f) = <<1>> THEN 0
                   ELSE Len(significant_figures(f)))
                + ExponentSize(f.exp - IntegerAdjust(f).exp))
    ELSE None

IntegerWithExponentSpeedCost(f) ==
    IF IntegerWithExponentExists(f)
    THEN Some(WriteDigitsSpeedCost(IntegerAdjust(f)).val
              + exponent_speed_cost(f.exp - IntegerAdjust(f).exp).val)
    ELSE None

IntegerWithExponentReconstruct(f) ==
    LET exponent == f.exp - IntegerAdjust(f).exp
        mantissa == IF significant_figures(f) = <<1>> THEN <<>>
                    ELSE WriteDigitsReconstruct(IntegerAdjust(f))
        magnitude == Abs(exponent)
    IN  mantissa \o <<TokSciE>>
        \o (IF exponent < 0 THEN <<TokNegate>> ELSE <<>>)
        \o (IF magnitude >= 10 THEN <<TokZero + (magnitude \div 10)>> ELSE <<>>)
        \o <<TokZero + (magnitude % 10)>>

----------------------------------------------------------------------------
(* FPartWithExponent: .<mantissa>|E<exponent>, all significant figures     *)
(* behind the decimal point.                                               *)

FPartAdjust(f) == shift(f, (0 - f.exp) - 1)

FPartWithExponentExists(f) == InExponentRange(f.exp - FPartAdjust(f).exp)

FPartWithExponentSizeCost(f) ==
    IF FPartWithExponentExists(f)
    THEN Some((IF f.neg THEN 1 ELSE 0) + 1 + Len(significant_figures(f)) + 1
              + ExponentSize(f.exp - FPartAdjust(f).exp))
    ELSE None

FPartWithExponentSpeedCost(f) ==
    IF FPartWithExponentExists(f)
    THEN Some(WriteDigitsSpeedCost(FPartAdjust(f)).val
              + exponent_speed_cost(f.exp - FPartAdjust(f).exp).val)
    ELSE None

FPartWithExponentReconstruct(f) ==
    LET exponent == f.exp - FPartAdjust(f).exp
        magnitude == Abs(exponent)
    IN  WriteDigitsReconstruct(FPartAdjust(f)) \o <<TokSciE>>
        \o (IF exponent < 0 THEN <<TokNegate>> ELSE <<>>)
        \o (IF magnitude > 10 THEN <<TokZero + (magnitude \div 10)>> ELSE <<>>)
        \o <<TokZero + (magnitude % 10)>>

----------------------------------------------------------------------------
(* The strategy framework.                                                 *)

\* the strategy list built by Float::reconstruct, in its order
Strategies ==
    <<"WriteDigits", "ColorConstant", "MathConstant", "IntegerWithExponent",
      "FPartWithExponent">>

StrategyNames == {Strategies[i] : i \in 1..Len(Strategies)}

Priorities == {"Neutral", "Speed", "Size"}

exists(s, f, cfg) ==
    CASE s = "WriteDigits" -> WriteDigitsExists(f)
      [] s = "ColorConstant" -> ColorConstantExists(f, cfg.color)
      [] s = "MathConstant" -> MathConstantExists(f)
      [] s = "IntegerWithExponent" -> IntegerWithExponentExists(f)
      [] s = "FPartWithExponent" -> FPartWithExponentExists(f)

size_cost(s, f, cfg) ==
    CASE s = "WriteDigits" -> WriteDigitsSizeCost(f)
      [] s = "ColorConstant" -> ColorConstantSizeCost(f, cfg.color)
      [] s = "MathConstant" -> MathConstantSizeCost(f)
      [] s = "IntegerWithExponent" -> IntegerWithExponentSizeCost(f)
      [] s = "FPartWithExponent" -> FPartWithExponentSizeCost(f)

speed_cost(s, f, cfg) ==
    CASE s = "WriteDigits" -> WriteDigitsSpeedCost(f)
      [] s = "ColorConstant" -> ColorConstantSpeedCost(f, cfg.color)
      [] s = "MathConstant" -> MathConstantSpeedCost(f)
      [] s = "IntegerWithExponent" -> IntegerWithExponentSpeedCost(f)
      [] s = "FPartWithExponent" -> FPartWithExponentSpeedCost(f)

StrategyReconstruct(s, f) ==
    CASE s = "WriteDigits" -> WriteDigitsReconstruct(f)
      [] s = "ColorConstant" -> ColorConstantReconstruct(f)
      [] s = "MathConstant" -> MathConstantReconstruct(f)
      [] s = "IntegerWithExponent" -> IntegerWithExponentReconstruct(f)
      [] s = "FPartWithExponent" -> FPartWithExponentReconstruct(f)

\* Ordering of two Option costs (None sorts before Some)
OptionCmp(a, b) ==
    IF a.none /\ b.none THEN "Equal"
    ELSE IF a.none THEN "Less"
    ELSE IF b.none THEN "Greater"
    ELSE IF a.val < b.val THEN "Less"
    ELSE IF a.val > b.val THEN "Greater"
    ELSE "Equal"

\* partial_cmp with the Speed and Size arms exchanged
partial_cmp_swapped(a, b, f, cfg) ==
    CASE cfg.priority = "Neutral" ->
           IF size_cost(a, f, cfg).none \/ speed_cost(a, f, cfg).none
              \/ size_cost(b, f, cfg).none \/ speed_cost(b, f, cfg).none
           THEN None
           ELSE Some(OptionCmp(
                  Some(size_cost(a, f, cfg).val * speed_cost(a, f, cfg).val),
                  Some(size_cost(b, f, cfg).val * speed_cost(b, f, cfg).val)))
      [] cfg.priority = "Speed" ->
           Some(OptionCmp(size_cost(a, f, cfg), size_cost(b, f, cfg)))
      [] cfg.priority = "Size" ->
           Some(OptionCmp(speed_cost(a, f, cfg), speed_cost(b, f, cfg)))

\* partial_cmp: None when a cost the priority needs is missing
partial_cmp(a, b, f, cfg) ==
    CASE cfg.priority = "Neutral" ->
           IF size_cost(a, f, cfg).none \/ speed_cost(a, f, cfg).none
              \/ size_cost(b, f, cfg).none \/ speed_cost(b, f, cfg).none
           THEN None
           ELSE Some(OptionCmp(
                  Some(size_cost(a, f, cfg).val * speed_cost(a, f, cfg).val),
                  Some(size_cost(b, f, cfg).val * speed_cost(b, f, cfg).val)))
      [] cfg.priority = "Speed" ->
           Some(OptionCmp(speed_cost(a, f, cfg), speed_cost(b, f, cfg)))
      [] cfg.priority = "Size" ->
           Some(OptionCmp(size_cost(a, f, cfg), size_cost(b, f, cfg)))

\* Iterator::filter(exists) over the first n strategies
RECURSIVE Existing(_, _, _)
Existing(f, cfg, n) ==
    IF n = 0 THEN <<>>
    ELSE Existing(f, cfg, n - 1)
         \o (IF exists(Strategies[n], f, cfg) THEN <<Strategies[n]>> ELSE <<>>)

\* Iterator::min_by: a later element replaces the current minimum only when
\* the comparison says the current one is Greater; a None comparison is the
\* expect failure
RECURSIVE MinBy(_, _, _, _)
MinBy(cands, f, cfg, n) ==
    IF n = 1 THEN Some(cands[1])
    ELSE LET best == MinBy(cands, f, cfg, n - 1) IN
         IF best.none THEN None
         ELSE LET c == partial_cmp(best.val, cands[n], f, cfg) IN
              IF c.none THEN None
              ELSE IF c.val = "Greater" THEN Some(cands[n])
              ELSE best

\* Vec<Box<dyn Strategy>>::reconstruct: the chosen strategy, or the panic
SelectStrategy(f, cfg) ==
    LET cands == Existing(f, cfg, Len(Strategies)) IN
    IF cands = <<>> THEN [panic |-> "No strategies were available!"]
    ELSE LET m == MinBy(cands, f, cfg, Len(cands)) IN
         IF m.none
         THEN [panic |-> "Strategy which exists returned None for a _cost."]
         ELSE [panic |-> "", chosen |-> m.val]

----------------------------------------------------------------------------
(* numeric_literal::Builder: parsing a numeric literal from a token        *)
(* stream.  Positions are 1-based indices of the next token.               *)

NoToken == 0 - 1

Peek(toks, pos) == IF pos >= 1 /\ pos <= Len(toks) THEN toks[pos] ELSE NoToken

\* Builder::consume_zeros
RECURSIVE consume_zeros(_, _)
consume_zeros(toks, pos) ==
    IF Peek(toks, pos) = TokZero THEN consume_zeros(toks, pos + 1) ELSE pos

\* the position after the run of numeric tokens starting at pos
RECURSIVE DigitRunEnd(_, _)
DigitRunEnd(toks, pos) ==
    IF is_numeric(Peek(toks, pos)) THEN DigitRunEnd(toks, pos + 1) ELSE pos

\* Builder::digits: the digits in toks[from .. to-1]
DigitsBetween(toks, from, to) == [i \in 1..(to - from) |-> toks[from + i - 1] - TokZero]

\* the index of the first nonzero digit, 0 when there is none
RECURSIVE FirstNonZero(_, _)
FirstNonZero(d, i) ==
    IF i > Len(d) THEN 0 ELSE IF d[i] # 0 THEN i ELSE FirstNonZero(d, i + 1)

NumPanic == [panic |-> TRUE]

NumOk(f, pos) == [panic |-> FALSE, float |-> f, pos |-> pos]

\* Builder::finalize
NumFinalize(exp, digits, pos) ==
    LET r == FloatNew(FALSE, exp, digits) IN
    IF r.none THEN NumPanic ELSE NumOk(r.val, pos)

\* Builder::handle_scientific_notation, entered after the |E was consumed
handle_scientific_notation(toks, pos, exp, digits) ==
    LET negative == Peek(toks, pos) = TokNegate
        start == IF negative THEN pos + 1 ELSE pos
        stop == DigitRunEnd(toks, start)
        ed == DigitsBetween(toks, start, stop)
        magnitude == IF Len(ed) = 1 THEN ed[1] ELSE ed[1] * 10 + ed[2]
    IN  IF Len(ed) = 0 \/ Len(ed) >= 3 THEN NumPanic
        ELSE IF Peek(toks, stop) = TokDecimalPoint THEN NumPanic
        ELSE NumFinalize(IF negative THEN exp - magnitude ELSE exp + magnitude,
                         digits, stop)

\* Builder::parse
BuilderParse(toks, pos0) ==
    LET pos == consume_zeros(toks, pos0)
        next == Peek(toks, pos)
    IN  IF next = TokDecimalPoint
        THEN \* leading decimal
             LET stop == DigitRunEnd(toks, pos + 1)
                 digits == DigitsBetween(toks, pos + 1, stop)
                 first == FirstNonZero(digits, 1)
             IN  IF digits = <<>> \/ first = 0 \/ first - 1 >= 99 THEN NumPanic
                 ELSE NumFinalize(0 - first, SubSeq(digits, first, Len(digits)), stop)
        ELSE IF next = TokSciE
        THEN \* scientific E with an implied 1
             handle_scientific_notation(toks, pos + 1, 0, <<1>>)
        ELSE IF is_numeric(next)
        THEN LET stop == DigitRunEnd(toks, pos)
                 before_decimal == DigitsBetween(toks, pos, stop)
                 has_point == Peek(toks, stop) = TokDecimalPoint
                 stop2 == IF has_point THEN DigitRunEnd(toks, stop + 1) ELSE stop
                 digits == IF has_point
                           THEN before_decimal \o DigitsBetween(toks, stop + 1, stop2)
                           ELSE before_decimal
                 exp == Len(before_decimal) - 1
             IN  IF Len(before_decimal) >= 99 THEN NumPanic
                 ELSE IF Peek(toks, stop2) = TokSciE
                 THEN handle_scientific_notation(toks, stop2 + 1, exp, digits)
                 ELSE NumFinalize(exp, digits, stop2)
        ELSE NumFinalize(0, <<>>, pos)

\* components::numeric_literal::parse_constant, the numeric constants
IsNumericConstant(t) ==
    t = TokPi \/ t = TokEuler \/ (t >= TwoByte(239, 65) /\ t <= TwoByte(239, 79))

parse_constant(t) ==
    IF t = TokPi THEN FloatPi
    ELSE IF t = TokEuler THEN FloatEuler
    ELSE LET n == (t - TwoByte(239, 65)) + 10 IN
         Float(FALSE, 1, TrimTrailingZeros(<<n \div 10, n % 10>>))

\* Operand::parse restricted to numeric literals: the Float an operand
\* starting at pos denotes, and the position after it
ParseNumericOperand(toks, pos) ==
    LET t == Peek(toks, pos) IN
    IF t >= TokZero /\ t <= TokSciE THEN BuilderParse(toks, pos)
    ELSE IF IsNumericConstant(t) THEN NumOk(parse_constant(t), pos + 1)
    ELSE NumPanic

----------------------------------------------------------------------------
(* The Floats and configurations the model draws.                          *)

Digits == 0..MaxDigit

SigFigSeqs(max) ==
    UNION {{d \in [1..n -> Digits] : d[1] # 0 /\ d[n] # 0} : n \in 1..max}

Floats(max) ==
    {Float(n, e, d) : n \in BOOLEAN, e \in MIN_EXPONENT..MAX_EXPONENT,
                      d \in SigFigSeqs(max)}
    \cup {FloatZero, FloatPi, FloatEuler}

Configs == [priority : Priorities, color : BOOLEAN]

NoFloat == [neg |-> FALSE, exp |-> 0, digs |-> <<0>>]

NoConfig == [priority |-> "Neutral", color |-> FALSE]

NoExpr == [node |-> "None"]

NoResult == [kind |-> "None"]

----------------------------------------------------------------------------
(* Numeric-literal emission as a state machine.                            *)

InitFloat ==
    /\ pc = "float"
    /\ item \in Floats(MaxSigFigs)
    /\ config = NoConfig
    /\ strategy = ""
    /\ tokens = <<>>
    /\ parsed = NumPanic
    /\ lines = <<>>
    /\ lines0 = <<>>
    /\ expr = NoExpr
    /\ savings = 0
    /\ stripped = <<>>
    /\ source = <<>>
    /\ round = 0
    /\ result = NoResult

\* <Strategy>::reconstruct for one strategy that exists for the item
EmitStrategy ==
    /\ pc = "float"
    /\ \E cfg \in Configs, s \in StrategyNames :
         /\ exists(s, item, cfg)
         /\ config' = cfg
         /\ strategy' = s
         /\ tokens' = StrategyReconstruct(s, item)
    /\ pc' = "emitted"
    /\ UNCHANGED <<result, item, parsed, lines, lines0, expr, savings, stripped, source, round>>

\* Float::reconstruct: the strategy list picks the strategy
FloatReconstruct ==
    /\ pc = "float"
    /\ \E cfg \in Configs :
         LET sel == SelectStrategy(item, cfg) IN
         /\ config' = cfg
         /\ IF sel.panic # ""
            THEN /\ pc' = "panicked"
                 /\ strategy' = sel.panic
                 /\ tokens' = <<>>
            ELSE /\ pc' = "selected"
                 /\ strategy' = sel.chosen
                 /\ tokens' = StrategyReconstruct(sel.chosen, item)
    /\ UNCHANGED <<result, item, parsed, lines, lines0, expr, savings, stripped, source, round>>

\* Operand::parse on the emitted tokens
ParseEmitted ==
    /\ pc \in {"emitted", "selected"}
    /\ parsed' = ParseNumericOperand(tokens, 1)
    /\ pc' = IF pc = "emitted" THEN "reparsed" ELSE "selected_reparsed"
    /\ UNCHANGED <<result, item, config, strategy, tokens, lines, lines0, expr, savings,
                   stripped, source, round>>

NextFloat == EmitStrategy \/ FloatReconstruct \/ ParseEmitted

SpecFloat == InitFloat /\ [][NextFloat]_vars

----------------------------------------------------------------------------
(* Claims about numeric-literal emission and strategy selection.           *)

Float10 == Float(FALSE, 1, <<1>>)

ExistingSet(f, cfg) == {s \in StrategyNames : exists(s, f, cfg)}

\* C3: for every non-negative Float and every strategy that exists for it,
\* parsing the tokens the strategy's reconstruct returns yields the Float again.
C3_EmissionPreservesValue ==
    (pc = "reparsed" /\ ~item.neg)
        => (~parsed.panic /\ parsed.float = item)

\* C6: under Size (Speed) priority the chosen strategy never has the same
\* size (speed) cost as another existing strategy and a strictly higher
\* speed (size) cost: ties in the primary cost are broken by the other cost.
C6_TiesBrokenBySecondaryCost ==
    pc = "selected" =>
        \A s \in ExistingSet(item, config) :
            /\ config.priority = "Size" =>
                 ~(/\ size_cost(s, item, config) = size_cost(strategy, item, config)
                   /\ speed_cost(s, item, config).val
                        < speed_cost(strategy, item, config).val)
            /\ config.priority = "Speed" =>
                 ~(/\ speed_cost(s, item, config) = speed_cost(strategy, item, config)
                   /\ size_cost(s, item, config).val
                        < size_cost(strategy, item, config).val)

\* C7: with a color version and Size priority, reconstructing the Float 10
\* selects ColorConstant, the two-byte token 0xEF 0x41.
C7_TenIsColorConstantUnderSize ==
    (pc = "selected" /\ item = Float10 /\ config.color /\ config.priority = "Size")
        => (strategy = "ColorConstant" /\ tokens = <<TwoByte(239, 65)>>)

\* C8: size_cost is exact: for every strategy that exists for a Float,
\* size_cost() is the number of bytes of the tokens its reconstruct returns.
C8_SizeCostIsExact ==
    pc = "emitted" =>
        (/\ ~size_cost(strategy, item, config).none
         /\ size_cost(strategy, item, config).val = ByteLen(tokens))

\* C9: under Size priority the size_cost of the chosen strategy is the
\* minimum of size_cost over all strategies that exist.
C9_SizeCostIsMinimal ==
    (pc = "selected" /\ config.priority = "Size") =>
        \A s \in ExistingSet(item, config) :
            size_cost(strategy, item, config).val <= size_cost(s, item, config).val

\* a selection under Size among several strategies of different size, where
\* the first strategy of the list is not the smallest
C9_Witness ==
    /\ pc = "selected"
    /\ config.priority = "Size"
    /\ strategy # "WriteDigits"
    /\ \E s \in ExistingSet(item, config) :
         size_cost(s, item, config).val > size_cost(strategy, item, config).val

\* C10: the strategy whose tokens are emitted exists, every existing strategy
\* has Some size_cost and Some speed_cost, WriteDigits always exists, and the
\* selection never fails.
C10_StrategyLegality ==
    /\ pc # "panicked"
    /\ pc \in {"float", "selected", "emitted"} =>
         \A cfg \in Configs :
            /\ exists("WriteDigits", item, cfg)
            /\ \A s \in ExistingSet(item, cfg) :
                  /\ ~size_cost(s, item, cfg).none
                  /\ ~speed_cost(s, item, cfg).none
    /\ pc = "selected" => exists(strategy, item, config)

\* a selection that had to compare several existing strategies and chose one
\* other than the always-existing WriteDigits
C10_Witness ==
    /\ pc = "selected"
    /\ strategy = "FPartWithExponent"
    /\ Cardinality(ExistingSet(item, config)) >= 2

----------------------------------------------------------------------------
(* Label-name optimization.  A LabelName is the u16 first << 8 | second.  *)
(* Lines are numbered from 1; 0 stands for "no such line".                *)

MaxLines == 3
MaxLabels == 2

LETTERS == 27
NUMBERS == 10

\* DICTIONARY[i + 1] is the code's DICTIONARY[i]: A..Z, theta, then 0..9
DICTIONARY == [i \in 1..37 |-> IF i <= 27 THEN 64 + i ELSE 48 + (i - 28)]

\* LabelName::new(first, None)
LabelName1(first) == first * 256

\* LabelName::new(first, Some(second))
LabelName2(first, second) == first * 256 + second

\* label_name with the digit-letter block laid out as the letter-digit block
label_name_same_blocks(rank) ==
    LET r1 == rank - Len(DICTIONARY)
        r2 == r1 - LETTERS * LETTERS
        r3 == r2 - NUMBERS * LETTERS
        r4 == r3 - LETTERS * NUMBERS
    IN  IF rank < Len(DICTIONARY) THEN LabelName1(DICTIONARY[rank + 1])
        ELSE IF r1 < LETTERS * LETTERS
        THEN LabelName2(DICTIONARY[(r1 \div LETTERS) + 1],
                        DICTIONARY[(r1 % LETTERS) + 1])
        ELSE IF r2 < NUMBERS * LETTERS
        THEN LabelName2(DICTIONARY[(r2 % LETTERS) + 1],
                        DICTIONARY[LETTERS + (r2 \div LETTERS) + 1])
        ELSE IF r3 < LETTERS * NUMBERS
        THEN LabelName2(DICTIONARY[(r3 % LETTERS) + 1],
                        DICTIONARY[LETTERS + (r3 \div LETTERS) + 1])
        ELSE LabelName2(DICTIONARY[LETTERS + (r4 \div NUMBERS) + 1],
                        DICTIONARY[LETTERS + (r4 % NUMBERS) + 1])

\* label_name(rank), rank counted from 0
label_name(rank) ==
    LET r1 == rank - Len(DICTIONARY)
        r2 == r1 - LETTERS * LETTERS
        r3 == r2 - NUMBERS * LETTERS
        r4 == r3 - LETTERS * NUMBERS
    IN  IF rank < Len(DICTIONARY) THEN LabelName1(DICTIONARY[rank + 1])
        ELSE IF r1 < LETTERS * LETTERS
        THEN LabelName2(DICTIONARY[(r1 \div LETTERS) + 1],
                        DICTIONARY[(r1 % LETTERS) + 1])
        ELSE IF r2 < NUMBERS * LETTERS
        THEN LabelName2(DICTIONARY[LETTERS + (r2 \div LETTERS) + 1],
                        DICTIONARY[(r2 % LETTERS) + 1])
        ELSE IF r3 < LETTERS * NUMBERS
        THEN LabelName2(DICTIONARY[(r3 % LETTERS) + 1],
                        DICTIONARY[LETTERS + (r3 \div LETTERS) + 1])
        ELSE LabelName2(DICTIONARY[LETTERS + (r4 \div NUMBERS) + 1],
                        DICTIONARY[LETTERS + (r4 % NUMBERS) + 1])

\* Statements, as far as the label pass tells them apart
StmtNone == [kind |-> "None", label |-> 0, options |-> <<>>]

StmtOther == [kind |-> "Other", label |-> 0, options |-> <<>>]

Lbl(name) == [kind |-> "Lbl", label |-> name, options |-> <<>>]

Goto(name) == [kind |-> "Goto", label |-> name, options |-> <<>>]

Menu(option_labels) == [kind |-> "Menu", label |-> 0, options |-> option_labels]

\* Program::label_declarations: the first line declaring name, 0 if none
label_declarations(ls, name) ==
    LET decls == {i \in 1..Len(ls) : ls[i] = Lbl(name)} IN
    IF decls = {} THEN 0 ELSE CHOOSE i \in decls : \A j \in decls : i <= j

\* OptionCount with a Menu counted once however many options name name
OptionCountOnce(stmt, name) ==
    IF \E k \in 1..Len(stmt.options) : stmt.options[k] = name THEN 1 ELSE 0

\* the number of options of a Menu line that name name
OptionCount(stmt, name) ==
    Cardinality({k \in 1..Len(stmt.options) : stmt.options[k] = name})

\* Program::label_usages: the usage lines of name among the first n lines,
\* a Menu line once per option naming it
RECURSIVE label_usages(_, _, _)
label_usages(ls, name, n) ==
    IF n = 0 THEN <<>>
    ELSE label_usages(ls, name, n - 1)
         \o (IF ls[n] = Goto(name) THEN <<n>>
             ELSE IF ls[n].kind = "Menu" THEN Repeat(n, OptionCount(ls[n], name))
             ELSE <<>>)

\* the keys of the label_usages map
UsedLabels(ls) ==
    {ls[i].label : i \in {j \in 1..Len(ls) : ls[j].kind = "Goto"}}
    \cup UNION {{ls[i].options[k] : k \in 1..Len(ls[i].options)} :
                  i \in {j \in 1..Len(ls) : ls[j].kind = "Menu"}}

\* the first loop: unused and shadowed Lbl lines become Statement::None
ClearDeclarations(ls) ==
    [i \in 1..Len(ls) |->
        IF ls[i].kind = "Lbl"
           /\ (ls[i].label \notin UsedLabels(ls)
               \/ label_declarations(ls, ls[i].label) # i)
        THEN StmtNone ELSE ls[i]]

\* UsageRank with the sort by ascending number of usages
UsageRankAscending(ls, name) ==
    LET count(l) == Len(label_usages(ls, l, Len(ls))) IN
    Cardinality({l \in UsedLabels(ls) :
                    \/ count(l) < count(name)
                    \/ count(l) = count(name) /\ l < name})

\* the position of name in usage_sorted: the map's keys in ascending
\* order, stably sorted by descending number of usages
UsageRank(ls, name) ==
    LET count(l) == Len(label_usages(ls, l, Len(ls))) IN
    Cardinality({l \in UsedLabels(ls) :
                    \/ count(l) > count(name)
                    \/ count(l) = count(name) /\ l < name})

\* one iteration of the renaming loop on the current lines cur: label
\* (with declaration line decl and usage lines usages) becomes new_name
RenameLabel(cur, label, new_name, decl, usages) ==
    [i \in 1..Len(cur) |->
        IF i = decl THEN Lbl(new_name)
        ELSE IF \E k \in 1..Len(usages) : usages[k] = i
        THEN IF cur[i].kind = "Goto" THEN Goto(new_name)
             ELSE IF cur[i].kind = "Menu"
             THEN Menu([k \in 1..Len(cur[i].options) |->
                          IF cur[i].options[k] = label THEN new_name
                          ELSE cur[i].options[k]])
             ELSE cur[i]
        ELSE cur[i]]

\* the renaming loop over the first n entries of usage_sorted; the maps were
\* computed on the original lines orig
RECURSIVE RenameLoop(_, _, _)
RenameLoop(orig, cur, n) ==
    IF n = 0 THEN [panic |-> "", lines |-> cur]
    ELSE LET before == RenameLoop(orig, cur, n - 1)
             rank == n - 1
             label == CHOOSE l \in UsedLabels(orig) : UsageRank(orig, l) = rank
             decl == label_declarations(orig, label)
         IN  IF before.panic # "" THEN before
             ELSE IF decl = 0
             THEN [panic |-> "Label used without accompanying Lbl statement.",
                   lines |-> before.lines]
             ELSE IF before.lines[decl].kind # "Lbl"
             THEN [panic |-> "Incorrect output from label_declarations, please report this.",
                   lines |-> before.lines]
             ELSE [panic |-> "",
                   lines |-> RenameLabel(before.lines, label, label_name(rank), decl,
                                         label_usages(orig, label, Len(orig)))]

\* Program::optimize_label_names
optimize_label_names(ls) ==
    RenameLoop(ls, ClearDeclarations(ls), Cardinality(UsedLabels(ls)))

\* The (usage line, option position, declaration line) triples of a program;
\* a Goto has option position 0
JumpGraph(ls) ==
    {<<i, 0, label_declarations(ls, ls[i].label)>> :
        i \in {j \in 1..Len(ls) : ls[j].kind = "Goto"}}
    \cup UNION {{<<i, k, label_declarations(ls, ls[i].options[k])>> :
                    k \in 1..Len(ls[i].options)} :
                  i \in {j \in 1..Len(ls) : ls[j].kind = "Menu"}}

\* The label names the model draws: 0, A, B, C
NameChoices == <<LabelName1(48), LabelName1(65), LabelName1(66), LabelName1(67)>>

LabelNames == {NameChoices[i] : i \in 1..MaxLabels}

\* the statements the model draws; a Menu has two options
Statements ==
    {StmtOther}
    \cup {Lbl(n) : n \in LabelNames}
    \cup {Goto(n) : n \in LabelNames}
    \cup {Menu(o) : o \in LabelNames \X LabelNames}

Programs(max) == UNION {[1..n -> Statements] : n \in 1..max}

InitLabels ==
    /\ pc = "parsed"
    /\ lines \in Programs(MaxLines)
    /\ lines0 = lines
    /\ item = NoFloat
    /\ config = NoConfig
    /\ strategy = ""
    /\ tokens = <<>>
    /\ parsed = NumPanic
    /\ expr = NoExpr
    /\ savings = 0
    /\ stripped = <<>>
    /\ source = <<>>
    /\ round = 0
    /\ result = NoResult

\* Program::optimize_label_names on the parsed program
OptimizeLabelNames ==
    /\ pc = "parsed"
    /\ LET r == optimize_label_names(lines) IN
       /\ pc' = IF r.panic # "" THEN "panicked" ELSE "renamed"
       /\ lines' = r.lines
    /\ UNCHANGED <<result, item, config, strategy, tokens, parsed, lines0, expr, savings,
                   stripped, source, round>>

NextLabels == OptimizeLabelNames

SpecLabels == InitLabels /\ [][NextLabels]_vars

\* C1: label renaming preserves the jump graph: after optimize_label_names
\* (which completes only when every used label has a Lbl) every Goto and
\* every Menu option targets the declaration line it targeted before.
C1_RenamingPreservesJumpGraph ==
    pc = "renamed" => JumpGraph(lines) = JumpGraph(lines0)

----------------------------------------------------------------------------
(* Expressions: the tree, optimize_parentheses, reconstruction and         *)
(* strip_closing_parenthesis.                                              *)

MaxOps == 2
MaxTokens == 4

TokOpenParen == 16
TokCloseParen == 17
TokCloseBracket == 7
TokCloseBrace == 9
TokQuote == 42
TokComma == 43
TokAns == 114
TokAdd == 112
TokSub == 113
TokMul == 130
TokDiv == 131
TokVarA == 65
TokAbs == 178

\* Expression::Operand(..)
NumericVarName(tok) == [node |-> "NumericVarName", tok |-> tok]

OperandAns == [node |-> "Ans"]

NumericLiteral(f) == [node |-> "NumericLiteral", float |-> f]

StringLiteral(data) == [node |-> "StringLiteral", data |-> data]

\* Expression::Operator(..)
Binary(kind, left, right) ==
    [node |-> "Binary", kind |-> kind, left |-> left, right |-> right]

Unary(kind, child) == [node |-> "Unary", kind |-> kind, child |-> child]

FunctionCall(kind, arguments) ==
    [node |-> "FunctionCall", kind |-> kind, arguments |-> arguments]

IsBinary(e) == e.node = "Binary"

IsOperand(e) ==
    e.node \in {"NumericVarName", "Ans", "NumericLiteral", "StringLiteral"}

\* BinOp::recognize
BinOpRecognize(t) ==
    t \in {60, 61, 64, 106, 107, 108, 109, 110, 111, 112, 113, 130, 131,
           148, 149, 240, 241}

\* UnOp::recognize
UnOpRecognize(t) ==
    t = TokNegate \/ (t >= 10 /\ t <= 15) \/ t = 45 \/ t = TwoByte(187, 218)

\* BinOp::opposite
opposite(kind) ==
    IF kind \in {112, 130, 60, 61, 64, 106, 109} THEN Some(kind)
    ELSE IF kind = 107 THEN Some(108)
    ELSE IF kind = 108 THEN Some(107)
    ELSE IF kind = 110 THEN Some(109)
    ELSE None

\* BinOp::associative
associative(kind) == kind \in {112, 130, 60, 61, 64}

\* BinOp::recognize_precedence
recognize_precedence(t) ==
    IF t \in {60, 61} THEN Some(10)
    ELSE IF t = 64 THEN Some(20)
    ELSE IF t >= 106 /\ t <= 111 THEN Some(30)
    ELSE IF t \in {112, 113} THEN Some(40)
    ELSE IF t \in {130, 131} THEN Some(50)
    ELSE IF t \in {148, 149} THEN Some(60)
    ELSE IF t \in {240, 241} THEN Some(70)
    ELSE None

\* BinOp::precedence
precedence(e) == recognize_precedence(e.kind).val

\* Expression::optimize_parentheses: the number returned (n) and the
\* expression as the call leaves it (e)
RECURSIVE optimize_parentheses(_)
optimize_parentheses(e) ==
    IF e.node = "Binary"
    THEN LET r == optimize_parentheses(e.right)
             right == r.n + (IF IsBinary(r.e) /\ precedence(e) >= precedence(r.e)
                             THEN 1 ELSE 0)
         IN  IF ~opposite(e.kind).none
             THEN LET l == optimize_parentheses(e.left)
                      left == l.n + (IF IsBinary(l.e)
                                        /\ precedence(e) >= precedence(l.e)
                                     THEN 1 ELSE 0)
                  IN  IF left > right
                      THEN [n |-> left,
                            e |-> Binary(opposite(e.kind).val, r.e, l.e)]
                      ELSE [n |-> right, e |-> Binary(e.kind, l.e, r.e)]
             ELSE [n |-> right, e |-> Binary(e.kind, e.left, r.e)]
    ELSE IF e.node = "FunctionCall"
    THEN IF e.arguments # <<>>
         THEN LET k == Len(e.arguments)
                  last == optimize_parentheses(e.arguments[k])
              IN  [n |-> 1 + last.n,
                   e |-> FunctionCall(e.kind, [e.arguments EXCEPT ![k] = last.e])]
         ELSE [n |-> 1, e |-> e]
    ELSE IF e.node = "Unary"
    THEN IF e.kind = TokNegate
         THEN LET c == optimize_parentheses(e.child) IN
              [n |-> IF IsBinary(e.child) THEN 1 + c.n ELSE c.n,
               e |-> Unary(e.kind, c.e)]
         ELSE [n |-> 0, e |-> e]
    ELSE IF e.node = "StringLiteral" THEN [n |-> 1, e |-> e]
    ELSE [n |-> 0, e |-> e]

\* ListIndexable::try_from(operand).is_ok() || MatrixIndexable::try_from(..)
IsIndexable(e) == e.node = "Ans"

\* Float::reconstruct: the tokens of the strategy the list selects
FloatTokens(f, cfg) == StrategyReconstruct(SelectStrategy(f, cfg).chosen, f)

\* the concatenation of a sequence of token vectors, a comma between them
RECURSIVE JoinWithComma(_)
JoinWithComma(parts) ==
    IF parts = <<>> THEN <<>>
    ELSE IF Len(parts) = 1 THEN parts[1]
    ELSE parts[1] \o <<TokComma>> \o JoinWithComma(Tail(parts))

\* Expression::reconstruct
RECURSIVE ExprReconstruct(_, _)
\* BinOp::reconstruct
BinOpReconstruct(e, cfg) ==
    LET left == e.left
        right == e.right
        left_parens == IsBinary(left) /\ precedence(left) < precedence(e)
        implicit_mul_viable ==
            ~(IsOperand(left)
              /\ ((e.kind = TokMul /\ IsIndexable(left))
                  \/ (left.node = "NumericLiteral"
                      /\ right.node = "NumericLiteral")))
        right_parens == /\ IsBinary(right)
                        /\ precedence(right) <= precedence(e)
                        /\ ~(e.kind = right.kind /\ associative(e.kind))
    IN  (IF left_parens
         THEN <<TokOpenParen>> \o ExprReconstruct(left, cfg) \o <<TokCloseParen>>
         ELSE ExprReconstruct(left, cfg))
        \o (IF e.kind # TokMul \/ ~implicit_mul_viable THEN <<e.kind>> ELSE <<>>)
        \o (IF right_parens
            THEN <<TokOpenParen>> \o ExprReconstruct(right, cfg) \o <<TokCloseParen>>
            ELSE ExprReconstruct(right, cfg))

\* UnOp::reconstruct
UnOpReconstruct(e, cfg) ==
    IF e.kind = TokNegate
    THEN IF IsBinary(e.child) /\ e.child.kind \notin {TokMul, TokDiv}
         THEN <<e.kind, TokOpenParen>> \o ExprReconstruct(e.child, cfg)
              \o <<TokOpenParen>>
         ELSE <<e.kind>> \o ExprReconstruct(e.child, cfg)
    ELSE (IF IsBinary(e.child)
             \/ (e.child.node = "Unary" /\ e.child.kind = TokNegate)
          THEN <<TokOpenParen>> \o ExprReconstruct(e.child, cfg)
               \o <<TokCloseParen>>
          ELSE ExprReconstruct(e.child, cfg))
         \o <<e.kind>>

\* FunctionCall::reconstruct
FunctionCallReconstruct(e, cfg) ==
    <<e.kind>>
    \o JoinWithComma([i \in 1..Len(e.arguments) |->
                        ExprReconstruct(e.arguments[i], cfg)])
    \o <<TokCloseParen>>

\* TIString::reconstruct
TIStringReconstruct(e) == <<TokQuote>> \o e.data \o <<TokQuote>>

\* Operator::reconstruct: each variant reconstructs itself
OperatorReconstruct(e, cfg) ==
    CASE e.node = "Binary" -> BinOpReconstruct(e, cfg)
      [] e.node = "Unary" -> UnOpReconstruct(e, cfg)
      [] e.node = "FunctionCall" -> FunctionCallReconstruct(e, cfg)

\* Operand::reconstruct: each variant reconstructs itself
OperandReconstruct(e, cfg) ==
    CASE e.node = "NumericVarName" -> <<e.tok>>
      [] e.node = "Ans" -> <<TokAns>>
      [] e.node = "NumericLiteral" -> FloatTokens(e.float, cfg)
      [] e.node = "StringLiteral" -> TIStringReconstruct(e)

ExprReconstruct(e, cfg) ==
    IF IsOperand(e) THEN OperandReconstruct(e, cfg)
    ELSE OperatorReconstruct(e, cfg)

\* one iteration of the loop of strip_closing_parenthesis: the token tok at
\* index idx (counted from 0) updates length_guess, in_string and
\* unclosed_string; the mutant treats closers alike inside and outside strings
StripStepIgnoringStrings(st, idx, tok) ==
    IF tok = TokQuote
    THEN IF st.in_string
         THEN [length_guess |-> idx - 1, in_string |-> FALSE,
               unclosed_string |-> TRUE]
         ELSE [st EXCEPT !.in_string = TRUE]
    ELSE IF tok \in {TokCloseParen, TokCloseBracket, TokCloseBrace}
    THEN st
    ELSE [st EXCEPT !.length_guess = idx, !.unclosed_string = st.in_string]

StripStep(st, idx, tok) ==
    IF tok = TokQuote
    THEN IF st.in_string
         THEN [length_guess |-> idx - 1, in_string |-> FALSE,
               unclosed_string |-> TRUE]
         ELSE [st EXCEPT !.in_string = TRUE]
    ELSE IF tok \in {TokCloseParen, TokCloseBracket, TokCloseBrace}
            /\ ~st.in_string
    THEN st
    ELSE [st EXCEPT !.length_guess = idx, !.unclosed_string = st.in_string]

\* the loop over the first n tokens
RECURSIVE StripScan(_, _)
StripScan(toks, n) ==
    IF n = 0
    THEN [length_guess |-> 0, in_string |-> FALSE, unclosed_string |-> FALSE]
    ELSE StripStep(StripScan(toks, n - 1), n - 1, toks[n])

\* Vec::truncate(len)
Truncate(toks, len) == IF len >= Len(toks) THEN toks ELSE SubSeq(toks, 1, len)

\* Expression::strip_closing_parenthesis: the vector as the call leaves it
strip_closing_parenthesis(toks) ==
    Truncate(toks, StripScan(toks, Len(toks)).length_guess + 1)

\* the operands and operators the model builds expressions from
Operands ==
    {NumericVarName(TokVarA), OperandAns,
     NumericLiteral(Float(FALSE, 0, <<2>>)), StringLiteral(<<TokVarA>>)}

BinaryKinds == {TokAdd, TokSub, TokMul}

\* the expressions with exactly n operators
RECURSIVE ExprsWithOps(_)
ExprsWithOps(n) ==
    IF n = 0 THEN Operands
    ELSE UNION {{Binary(k, l, r) : k \in BinaryKinds, l \in ExprsWithOps(i),
                                   r \in ExprsWithOps(n - 1 - i)} :
                  i \in 0..(n - 1)}
         \cup {Unary(TokNegate, c) : c \in ExprsWithOps(n - 1)}
         \cup {FunctionCall(TokAbs, <<c>>) : c \in ExprsWithOps(n - 1)}

Expressions(max) == UNION {ExprsWithOps(n) : n \in 0..max}

\* the tokens strip_closing_parenthesis is tried on directly
StripAlphabet ==
    {TokQuote, TokOpenParen, TokCloseParen, TokCloseBracket, TokCloseBrace,
     TokVarA}

TokenVectors(max) == UNION {[1..n -> StripAlphabet] : n \in 0..max}

InitExpr ==
    /\ pc = "expr"
    /\ expr \in Expressions(MaxOps)
    /\ item = NoFloat
    /\ config = NoConfig
    /\ strategy = ""
    /\ tokens = <<>>
    /\ parsed = NumPanic
    /\ lines = <<>>
    /\ lines0 = <<>>
    /\ savings = 0
    /\ stripped = <<>>
    /\ source = <<>>
    /\ round = 0
    /\ result = NoResult

InitStrip ==
    /\ pc = "reconstructed"
    /\ tokens \in TokenVectors(MaxTokens)
    /\ expr = NoExpr
    /\ item = NoFloat
    /\ config = NoConfig
    /\ strategy = ""
    /\ parsed = NumPanic
    /\ lines = <<>>
    /\ lines0 = <<>>
    /\ savings = 0
    /\ stripped = <<>>
    /\ source = <<>>
    /\ round = 0
    /\ result = NoResult

\* expr.optimize_parentheses()
OptimizeParentheses ==
    /\ pc = "expr"
    /\ LET r == optimize_parentheses(expr) IN
       /\ expr' = r.e
       /\ savings' = r.n
    /\ pc' = "optimized"
    /\ UNCHANGED <<result, item, config, strategy, tokens, parsed, lines, lines0,
                   stripped, source, round>>

\* expr.reconstruct(config)
ReconstructExpr ==
    /\ pc \in {"expr", "optimized"}
    /\ \E cfg \in Configs :
         /\ config' = cfg
         /\ tokens' = ExprReconstruct(expr, cfg)
    /\ pc' = IF pc = "expr" THEN "reconstructed" ELSE "optimized_reconstructed"
    /\ UNCHANGED <<result, item, strategy, parsed, lines, lines0, expr, savings,
                   stripped, source, round>>

\* Expression::strip_closing_parenthesis on the reconstructed tokens
StripClosingParenthesis ==
    /\ pc \in {"reconstructed", "optimized_reconstructed"}
    /\ stripped' = strip_closing_parenthesis(tokens)
    /\ pc' = IF pc = "reconstructed" THEN "stripped" ELSE "optimized_stripped"
    /\ UNCHANGED <<result, item, config, strategy, tokens, parsed, lines, lines0, expr,
                   savings, source, round>>

RECURSIVE ExpressionParse(_, _)

\* Expression::parse on the tokens expr.reconstruct returned
ParseReconstructed ==
    /\ pc = "reconstructed"
    /\ pc' = "reparsed"
    /\ result' = ExpressionParse(tokens, 1)
    /\ UNCHANGED <<item, config, strategy, tokens, parsed, lines, lines0, expr, savings,
                   stripped, source, round>>

NextExpr ==
    OptimizeParentheses \/ ReconstructExpr \/ StripClosingParenthesis
    \/ ParseReconstructed

SpecExpr == InitExpr /\ [][NextExpr]_vars

\* Expression::strip_closing_parenthesis on the vector it has already stripped
StripAgain ==
    /\ pc = "stripped"
    /\ pc' = "stripped_again"
    /\ result' = [kind |-> "Tokens", tokens |-> strip_closing_parenthesis(stripped)]
    /\ UNCHANGED <<item, config, strategy, tokens, parsed, lines, lines0, expr, savings,
                   stripped, source, round>>

NextStrip == StripClosingParenthesis \/ StripAgain

SpecStrip == InitStrip /\ [][NextStrip]_vars

\* C4: the number optimize_parentheses returns is the number of tokens that
\* strip_closing_parenthesis removes from the reconstruction made after it.
C4_SavingsAreStrippedTokens ==
    pc = "optimized_stripped" => savings = Len(tokens) - Len(stripped)

\* token i of toks lies inside a string literal: it is no quote and an odd
\* number of quotes precedes it
InsideString(toks, i) ==
    /\ toks[i] # TokQuote
    /\ Cardinality({j \in 1..(i - 1) : toks[j] = TokQuote}) % 2 = 1

----------------------------------------------------------------------------
(* Parsing.  A position is the index of the next token to read, counted    *)
(* from 1; Tokens::next moves it on even past the end.  A parse result     *)
(* carries err, "" when the parse succeeded.                               *)

MaxSource == 4
MaxRounds == 2

TokStore == 4
TokColon == 62
TokNewline == 63
TokOne == 49

\* FunctionCall::recognize
FunctionCallRecognize(t) ==
    \/ t >= 18 /\ t <= 37
    \/ t \in {39, 40}
    \/ t >= 177 /\ t <= 186
    \/ t >= 188 /\ t <= 205
    \/ t >= TwoByte(187, 0) /\ t <= TwoByte(187, 4)
    \/ t >= TwoByte(187, 7) /\ t <= TwoByte(187, 31)
    \/ t >= TwoByte(187, 37) /\ t <= TwoByte(187, 46)
    \/ t >= TwoByte(239, 0) /\ t <= TwoByte(239, 8)
    \/ t = TwoByte(239, 19)
    \/ t >= TwoByte(239, 50) /\ t <= TwoByte(239, 53)
    \/ t \in {TwoByte(239, 149), TwoByte(239, 151), TwoByte(239, 152),
              TwoByte(239, 166)}

\* the index of the first token at or after pos that ends a string
\* (store arrow, newline or quote), Len(toks) + 1 when there is none
RECURSIVE StringEnd(_, _)
StringEnd(toks, pos) ==
    IF pos > Len(toks) \/ toks[pos] \in {TokStore, TokNewline, TokQuote}
    THEN pos
    ELSE StringEnd(toks, pos + 1)

NoOperand == [err |-> "", some |-> FALSE]

SomeOperand(operand, pos) ==
    [err |-> "", some |-> TRUE, operand |-> operand, pos |-> pos]

\* Operand::parse(token, more), more standing at pos, for the operands the
\* model draws: numeric literals and constants, numeric variables, Ans and
\* string literals
OperandParse(toks, pos, token) ==
    IF token >= TokZero /\ token <= TokSciE
    THEN LET Literal(r) ==
                 IF r.panic THEN [err |-> "panic", some |-> FALSE]
                 ELSE SomeOperand(NumericLiteral(r.float), r.pos)
         IN  Literal(BuilderParse(toks, pos - 1))
    ELSE IF (token >= 65 /\ token <= 91) \/ token = TwoByte(98, 33)
    THEN SomeOperand(NumericVarName(token), pos)
    ELSE IF token = TokAns THEN SomeOperand(OperandAns, pos)
    ELSE IF token = TokQuote
    THEN LET Str(stop) ==
                 SomeOperand(StringLiteral(SubSeq(toks, pos, stop - 1)),
                             IF Peek(toks, stop) = TokQuote THEN stop + 1
                             ELSE stop)
         IN  Str(StringEnd(toks, pos))
    ELSE IF IsNumericConstant(token)
    THEN SomeOperand(NumericLiteral(parse_constant(token)), pos)
    ELSE NoOperand

\* expression::Builder::new
NewBuilder(pos) ==
    [operand_stack |-> <<>>, operator_stack |-> <<>>, paren_depth |-> 0,
     implicit_mul_allowed |-> FALSE, pos |-> pos, err |-> ""]

Front(s) == SubSeq(s, 1, Len(s) - 1)

Last(s) == s[Len(s)]

\* Builder::process_operator: the builder afterwards, and the value returned
process_operator(st, operator) ==
    LET n == Len(st.operand_stack) IN
    IF UnOpRecognize(operator)
    THEN IF n = 0 THEN [st |-> [st EXCEPT !.err = "error 5"], applied |-> FALSE]
         ELSE [st |-> [st EXCEPT
                         !.operand_stack =
                             Append(Front(@), Unary(operator, Last(@))),
                         !.implicit_mul_allowed =
                             IF operator # TokNegate THEN TRUE ELSE @],
               applied |-> TRUE]
    ELSE IF BinOpRecognize(operator)
    THEN IF n = 0 THEN [st |-> [st EXCEPT !.err = "error 2"], applied |-> FALSE]
         ELSE IF n = 1
         THEN [st |-> [st EXCEPT !.err = "error 3"], applied |-> FALSE]
         ELSE [st |-> [st EXCEPT
                         !.operand_stack =
                             Append(SubSeq(@, 1, n - 2),
                                    Binary(operator, @[n - 1], @[n])),
                         !.implicit_mul_allowed = FALSE],
               applied |-> TRUE]
    ELSE [st |-> st, applied |-> FALSE]

\* the loop of push_binop: operators of the stack that bind at least as
\* tightly as the incoming one are applied
RECURSIVE PopTighter(_, _)
PopTighter(st, prec) ==
    IF st.err # "" \/ st.operator_stack = <<>> THEN st
    ELSE LET top == Last(st.operator_stack)
             p == recognize_precedence(top)
         IN  IF UnOpRecognize(top) \/ (IF p.none THEN 0 ELSE p.val) >= prec
             THEN PopTighter(
                      process_operator(
                          [st EXCEPT !.operator_stack = Front(@)], top).st,
                      prec)
             ELSE st

\* Builder::push_binop
push_binop(st, operator) ==
    LET Push(s1) ==
            IF s1.err # "" THEN s1
            ELSE [s1 EXCEPT !.operator_stack = Append(@, operator)]
    IN  Push(PopTighter([st EXCEPT !.implicit_mul_allowed = FALSE],
                        recognize_precedence(operator).val))

\* Builder::check_implicit_mul
check_implicit_mul(st) ==
    IF st.implicit_mul_allowed THEN push_binop(st, TokMul) ELSE st

\* Builder::open_paren
open_paren(st) ==
    LET Push(s1) ==
            IF s1.err # "" THEN s1
            ELSE [s1 EXCEPT !.operator_stack = Append(@, TokOpenParen)]
    IN  Push(check_implicit_mul([st EXCEPT !.paren_depth = @ + 1]))

\* the loop of close_paren: operators are applied down to the parenthesis
RECURSIVE CloseReduce(_)
CloseReduce(st) ==
    IF st.err # "" \/ st.operator_stack = <<>> THEN st
    ELSE LET Step(r) ==
                 IF r.st.err # "" THEN r.st
                 ELSE IF ~r.applied THEN st
                 ELSE CloseReduce([r.st EXCEPT !.operator_stack = Front(@)])
         IN  Step(process_operator(st, Last(st.operator_stack)))

\* Builder::close_paren
close_paren(st) ==
    LET Pop(s1) ==
            IF s1.err # "" THEN s1
            ELSE IF s1.operator_stack # <<>>
                    /\ Last(s1.operator_stack) = TokOpenParen
            THEN [s1 EXCEPT !.operator_stack = Front(@),
                            !.implicit_mul_allowed = TRUE]
            ELSE [s1 EXCEPT !.err = "error 1"]
    IN  Pop(CloseReduce([st EXCEPT !.paren_depth = @ - 1]))

\* the loop of finalize: every operator left is applied, parentheses dropped
RECURSIVE FinalizeLoop(_)
FinalizeLoop(st) ==
    IF st.err # "" \/ st.operator_stack = <<>> THEN st
    ELSE LET x == Last(st.operator_stack)
             popped == [st EXCEPT !.operator_stack = Front(@)]
         IN  IF x = TokOpenParen THEN FinalizeLoop(popped)
             ELSE FinalizeLoop(process_operator(popped, x).st)

\* Builder::finalize
finalize(st) ==
    LET Result(s1) ==
            IF s1.err # "" THEN [err |-> s1.err, expr |-> NoExpr, pos |-> s1.pos]
            ELSE IF ~(s1.operator_stack = <<>> /\ Len(s1.operand_stack) = 1)
            THEN [err |-> "error 4", expr |-> NoExpr, pos |-> s1.pos]
            ELSE [err |-> "", expr |-> s1.operand_stack[1], pos |-> s1.pos]
    IN  Result(FinalizeLoop(st))


\* the argument loop of FunctionCall::parse; the argument starts at start
RECURSIVE ArgumentLoop(_, _, _)
ArgumentLoop(toks, start, arguments) ==
    LET Argument(e) ==
            IF e.err # "" THEN [err |-> e.err, some |-> FALSE]
            ELSE LET args == Append(arguments, e.expr)
                     p == Peek(toks, e.pos)
                 IN  IF p = TokComma
                     THEN IF e.pos + 1 > Len(toks)
                          THEN [err |-> "panic", some |-> FALSE]
                          ELSE ArgumentLoop(toks, e.pos + 1, args)
                     ELSE IF p = TokCloseParen
                     THEN [err |-> "", some |-> TRUE, arguments |-> args,
                           pos |-> e.pos + 1]
                     ELSE IF p \in {TokStore, TokColon, TokNewline, NoToken}
                     THEN [err |-> "", some |-> TRUE, arguments |-> args,
                           pos |-> e.pos]
                     ELSE [err |-> "Unexpected character in function call",
                           some |-> FALSE]
    IN  Argument(ExpressionParse(toks, start))

\* FunctionCall::parse(token, more), more standing at pos
FunctionCallParse(toks, pos, token) ==
    IF ~FunctionCallRecognize(token) THEN [err |-> "", some |-> FALSE]
    ELSE IF Peek(toks, pos) = NoToken
    THEN [err |-> "", some |-> TRUE, arguments |-> <<>>, pos |-> pos + 1]
    ELSE ArgumentLoop(toks, pos, <<>>)

\* Builder::process_operand_stack
process_operand_stack(toks, st, next) ==
    LET PushOperand(o, s1) ==
            IF s1.err # "" THEN [st |-> s1, handled |-> FALSE]
            ELSE IF Peek(toks, o.pos) = TokOpenParen /\ o.operand = OperandAns
            THEN [st |-> [s1 EXCEPT !.err = "panic"], handled |-> FALSE]
            ELSE [st |-> [s1 EXCEPT !.operand_stack = Append(@, o.operand),
                                    !.implicit_mul_allowed = TRUE],
                  handled |-> TRUE]
        PushCall(f, s1) ==
            IF s1.err # "" THEN [st |-> s1, handled |-> FALSE]
            ELSE [st |-> [s1 EXCEPT
                            !.operand_stack =
                                Append(@, FunctionCall(next, f.arguments)),
                            !.implicit_mul_allowed = TRUE],
                  handled |-> TRUE]
        Call(f) ==
            IF f.err # ""
            THEN [st |-> [st EXCEPT !.err = f.err], handled |-> FALSE]
            ELSE IF f.some
            THEN PushCall(f, check_implicit_mul([st EXCEPT !.pos = f.pos]))
            ELSE [st |-> st, handled |-> FALSE]
        Operand(o) ==
            IF o.err # ""
            THEN [st |-> [st EXCEPT !.err = o.err], handled |-> FALSE]
            ELSE IF o.some
            THEN PushOperand(o, check_implicit_mul([st EXCEPT !.pos = o.pos]))
            ELSE Call(FunctionCallParse(toks, st.pos, next))
    IN  Operand(OperandParse(toks, st.pos, next))

\* Builder::process_next: the builder afterwards and whether to go on
process_next(toks, st, next) ==
    LET Step(r) ==
            IF r.st.err # "" THEN [st |-> r.st, more |-> FALSE]
            ELSE IF r.handled THEN [st |-> r.st, more |-> TRUE]
            ELSE IF next = TokOpenParen
            THEN [st |-> open_paren(st), more |-> TRUE]
            ELSE IF next = TokCloseParen /\ st.paren_depth > 0
            THEN [st |-> close_paren(st), more |-> TRUE]
            ELSE IF next = TokNegate
            THEN [st |-> [st EXCEPT !.operator_stack = Append(@, next),
                                    !.implicit_mul_allowed = FALSE],
                  more |-> TRUE]
            ELSE IF BinOpRecognize(next)
            THEN [st |-> push_binop(st, next), more |-> TRUE]
            ELSE IF UnOpRecognize(next)
            THEN [st |-> process_operator(st, next).st, more |-> TRUE]
            ELSE [st |-> st, more |-> FALSE]
    IN  Step(process_operand_stack(toks, st, next))

\* the loop of Builder::build, with the backtrack_once that follows it
RECURSIVE BuildLoop(_, _)
BuildLoop(toks, st) ==
    IF st.err # "" THEN st
    ELSE LET next == Peek(toks, st.pos) IN
         IF next = NoToken THEN st
         ELSE LET Step(r) ==
                      IF r.st.err # "" THEN r.st
                      ELSE IF ~r.more THEN st
                      ELSE BuildLoop(toks, r.st)
              IN  Step(process_next(toks, [st EXCEPT !.pos = @ + 1], next))

\* Expression::parse for the expression that starts at pos
ExpressionParse(toks, pos) == finalize(BuildLoop(toks, NewBuilder(pos)))

----------------------------------------------------------------------------
(* Programs: Program::parse, Program::reconstruct and the round trip.      *)

\* Statement::Expression(expr)
ExpressionStatement(e) == [kind |-> "Expression", expr |-> e]

\* Statement::parse for the statement that starts at pos; of the statement
\* kinds only Expression begins with a token the model draws, and no drawn
\* source holds a store arrow
StatementParse(toks, pos) ==
    LET Result(e) ==
            IF e.err # "" THEN [err |-> e.err, pos |-> e.pos]
            ELSE [err |-> "", statement |-> ExpressionStatement(e.expr),
                  pos |-> e.pos]
    IN  Result(ExpressionParse(toks, pos))

\* the position after the rest of the line: Iterator::take_while reads up to
\* and including the first colon or newline
RECURSIVE SkipLine(_, _)
SkipLine(toks, pos) ==
    IF pos > Len(toks) THEN pos + 1
    ELSE IF toks[pos] \in {TokColon, TokNewline} THEN pos + 1
    ELSE SkipLine(toks, pos + 1)

\* the loop of Program::parse from position pos on
RECURSIVE ParseLines(_, _, _)
ParseLines(toks, pos, parsed_lines) ==
    LET next == Peek(toks, pos) IN
    IF next = NoToken THEN [err |-> "", lines |-> parsed_lines]
    ELSE IF next \in {TokColon, TokNewline}
    THEN ParseLines(toks, pos + 1, parsed_lines)
    ELSE LET Line(s) ==
                 IF s.err # "" THEN [err |-> s.err, lines |-> <<>>]
                 ELSE IF Peek(toks, s.pos) \in {TokColon, TokNewline, NoToken}
                 THEN ParseLines(toks, s.pos, Append(parsed_lines, s.statement))
                 ELSE ParseLines(toks, SkipLine(toks, s.pos),
                                 Append(parsed_lines, s.statement))
         IN  Line(StatementParse(toks, pos))

\* Program::parse
ProgramParse(toks) == ParseLines(toks, 1, <<>>)

\* Statement::reconstruct
StatementReconstruct(s, cfg) ==
    IF s.kind = "Expression"
    THEN strip_closing_parenthesis(ExprReconstruct(s.expr, cfg))
    ELSE <<>>

\* the token vectors of the lines with a newline between them
RECURSIVE JoinWithNewline(_)
JoinWithNewline(parts) ==
    IF parts = <<>> THEN <<>>
    ELSE IF Len(parts) = 1 THEN parts[1]
    ELSE parts[1] \o <<TokNewline>> \o JoinWithNewline(Tail(parts))

\* Program::reconstruct
ProgramReconstruct(ls, cfg) ==
    LET kept == SelectSeq(ls, LAMBDA s : s.kind # "None") IN
    JoinWithNewline([i \in 1..Len(kept) |-> StatementReconstruct(kept[i], cfg)])

\* the tokens the sources are made of
SourceAlphabet ==
    {TokNegate, TokOpenParen, TokCloseParen, TokVarA, TokAdd, TokMul, TokOne,
     TokQuote, TokAbs, TokNewline}

Sources(max) == UNION {[1..n -> SourceAlphabet] : n \in 0..max}

InitProgram ==
    /\ pc = "loaded"
    /\ source \in Sources(MaxSource)
    /\ round = 0
    /\ result = NoResult
    /\ tokens = <<>>
    /\ lines = <<>>
    /\ lines0 = <<>>
    /\ expr = NoExpr
    /\ item = NoFloat
    /\ config = NoConfig
    /\ strategy = ""
    /\ parsed = NumPanic
    /\ savings = 0
    /\ stripped = <<>>

\* Program::from_tokens: on the loaded source, then on the tokens exported
ParseProgram ==
    /\ pc \in {"loaded", "exported"}
    /\ round < MaxRounds
    /\ \E r \in {ProgramParse(IF pc = "loaded" THEN source ELSE tokens)} :
           /\ source' = (IF pc = "loaded" THEN source ELSE tokens)
           /\ lines' = r.lines
           /\ pc' = IF r.err # "" THEN "rejected" ELSE "parsed"
    /\ UNCHANGED <<result, item, config, strategy, tokens, parsed, lines0, expr, savings,
                   stripped, round>>

\* Program::reconstruct(config), with the same config in every round
ReconstructProgram ==
    /\ pc = "parsed"
    /\ \E cfg \in Configs :
         /\ round = 0 \/ cfg = config
         /\ config' = cfg
         /\ tokens' = ProgramReconstruct(lines, cfg)
    /\ round' = round + 1
    /\ pc' = "exported"
    /\ UNCHANGED <<result, item, strategy, parsed, lines, lines0, expr, savings,
                   stripped, source>>

NextProgram == ParseProgram \/ ReconstructProgram

SpecProgram == InitProgram /\ [][NextProgram]_vars

\* C2: the program round trip is a fixed point: the tokens exported from a
\* source that parses parse again, and exporting them again gives the same
\* tokens.
C2_RoundTripIsFixedPoint ==
    /\ pc = "rejected" => round = 0
    /\ (pc = "exported" /\ round >= 2) => tokens = source

----------------------------------------------------------------------------
(* Failure paths: Program::block_failure_paths and simple_failure_paths.   *)
(* A line is a Command as far as the analysis tells Commands apart: the    *)
(* kind of its control-flow statement, and whether that statement is the   *)
(* valence of a DelVar chain.  Line indices count from 0 as in the code;   *)
(* a map from line to line is a set of <<source, destination>> pairs.      *)

MaxCmds == 4

\* Command::ControlFlow(kind), or for valence a DelVarChain whose valence is it
Cmd(kind, valence) == [kind |-> kind, valence |-> valence]

\* the line with index idx (from 0)
LineAt(ls, idx) == ls[idx + 1]

\* lines.peek() is Some((_, Command::ControlFlow(ControlFlow::Then)))
PeekIsThen(ls, idx) ==
    idx + 1 < Len(ls) /\ LineAt(ls, idx + 1) = Cmd("Then", FALSE)

\* BTreeMap::insert
MapInsert(map, key, value) == {p \in map : p[1] # key} \cup {<<key, value>>}

\* Branch { kind, idx, is_delvar_valence }; has_if_then matters for Else only
Branch(kind, has_if_then, idx, valence) ==
    [kind |-> kind, has_if_then |-> has_if_then, idx |-> idx,
     is_delvar_valence |-> valence]

\* stack.iter().rposition(|x| !x.is_delvar_valence), 0 for None
RPositionNotValence(stack) ==
    LET hits == {k \in 1..Len(stack) : ~stack[k].is_delvar_valence} IN
    IF hits = {} THEN 0 ELSE CHOOSE k \in hits : \A j \in hits : j <= k

\* Vec::remove
VecRemove(s, k) == SubSeq(s, 1, k - 1) \o SubSeq(s, k + 1, Len(s))

\* the End arm: branches are popped, each given the line after the End, up
\* to and including the first that is neither a DelVar valence nor an Else
\* without an If-Then
\* the End arm recording the line of the End itself
RECURSIVE PopAtEndRecordsEndLine(_, _, _)
PopAtEndRecordsEndLine(stack, output, idx) ==
    IF stack = <<>> THEN [stack |-> stack, output |-> output]
    ELSE LET branch == stack[Len(stack)]
             rest == SubSeq(stack, 1, Len(stack) - 1)
             out == MapInsert(output, branch.idx, idx)
         IN  IF branch.is_delvar_valence
                \/ (branch.kind = "Else" /\ ~branch.has_if_then)
             THEN PopAtEndRecordsEndLine(rest, out, idx)
             ELSE [stack |-> rest, output |-> out]

RECURSIVE PopAtEnd(_, _, _)
PopAtEnd(stack, output, idx) ==
    IF stack = <<>> THEN [stack |-> stack, output |-> output]
    ELSE LET branch == stack[Len(stack)]
             rest == SubSeq(stack, 1, Len(stack) - 1)
             out == MapInsert(output, branch.idx, idx + 1)
         IN  IF branch.is_delvar_valence
                \/ (branch.kind = "Else" /\ ~branch.has_if_then)
             THEN PopAtEnd(rest, out, idx)
             ELSE [stack |-> rest, output |-> out]

\* the Else arm with the If-Then left on the stack
ElseArmKeepsIfThen(st, idx, valence) ==
    LET k == RPositionNotValence(st.stack)
        has_if_then == k # 0 /\ st.stack[k].kind = "IfThen"
        closes == has_if_then /\ ~valence
    IN  [st EXCEPT
           !.output = IF closes THEN MapInsert(@, st.stack[k].idx, idx + 1)
                      ELSE @,
           !.stack = Append(@, Branch("Else", has_if_then, idx, valence))]

\* the Else arm
ElseArm(st, idx, valence) ==
    LET k == RPositionNotValence(st.stack)
        has_if_then == k # 0 /\ st.stack[k].kind = "IfThen"
        closes == has_if_then /\ ~valence
    IN  [st EXCEPT
           !.output = IF closes THEN MapInsert(@, st.stack[k].idx, idx + 1)
                      ELSE @,
           !.stack = Append(IF closes THEN VecRemove(@, k) ELSE @,
                            Branch("Else", has_if_then, idx, valence))]

\* one iteration of the loop of block_failure_paths, on the line idx
BlockStep(ls, st, idx) ==
    LET kind == LineAt(ls, idx).kind
        valence == LineAt(ls, idx).valence
    IN  IF kind \in {"While", "For"}
        THEN [st EXCEPT !.stack =
                 Append(@, Branch("SkippableLoop", FALSE, idx, valence))]
        ELSE IF kind = "Repeat"
        THEN [st EXCEPT !.stack =
                 Append(@, Branch("UnskippableLoop", FALSE, idx, valence))]
        ELSE IF kind = "If"
        THEN IF PeekIsThen(ls, idx)
             THEN [st EXCEPT !.stack =
                      Append(@, Branch("IfThen", FALSE, idx, valence))]
             ELSE IF idx + 1 < Len(ls) THEN st
             ELSE [st EXCEPT !.panic = "Expected If statement body"]
        ELSE IF kind = "Else" THEN ElseArm(st, idx, valence)
        ELSE IF kind = "End"
        THEN LET Popped(r) == [st EXCEPT !.stack = r.stack, !.output = r.output]
             IN  Popped(PopAtEnd(st.stack, st.output, idx))
        ELSE st

\* the loop of block_failure_paths over the first n lines
RECURSIVE BlockLoop(_, _)
BlockLoop(ls, n) ==
    IF n = 0 THEN [stack |-> <<>>, output |-> {}, panic |-> ""]
    ELSE LET Step(st) == IF st.panic # "" THEN st ELSE BlockStep(ls, st, n - 1)
         IN  Step(BlockLoop(ls, n - 1))

\* Program::block_failure_paths: the map returned, and the stack the
\* function holds when it returns
block_failure_paths(ls) == BlockLoop(ls, Len(ls))

\* the iteration of simple_failure_paths that does not look for a Then
SimpleStepIgnoringThen(ls, st, idx) ==
    LET kind == LineAt(ls, idx).kind
        skip == [st EXCEPT !.output = MapInsert(@, idx, idx + 2)]
    IN  IF kind = "If"
        THEN IF idx + 1 < Len(ls)
             THEN IF idx + 2 > Len(ls)
                  THEN [skip EXCEPT !.panic =
                          "If statement has nowhere to jump to when false"]
                  ELSE skip
             ELSE [st EXCEPT !.panic = "Expected If statement body"]
        ELSE IF kind \in {"IsGt", "DsLt"}
        THEN IF idx + 2 > Len(ls)
             THEN [skip EXCEPT !.panic =
                     "Is>/Ds< statement has nowhere to jump to when false"]
             ELSE skip
        ELSE st

\* one iteration of the loop of simple_failure_paths, on the line idx
SimpleStep(ls, st, idx) ==
    LET kind == LineAt(ls, idx).kind
        skip == [st EXCEPT !.output = MapInsert(@, idx, idx + 2)]
    IN  IF kind = "If"
        THEN IF PeekIsThen(ls, idx) THEN st
             ELSE IF idx + 1 < Len(ls)
             THEN IF idx + 2 > Len(ls)
                  THEN [skip EXCEPT !.panic =
                          "If statement has nowhere to jump to when false"]
                  ELSE skip
             ELSE [st EXCEPT !.panic = "Expected If statement body"]
        ELSE IF kind \in {"IsGt", "DsLt"}
        THEN IF idx + 2 > Len(ls)
             THEN [skip EXCEPT !.panic =
                     "Is>/Ds< statement has nowhere to jump to when false"]
             ELSE skip
        ELSE st

\* the loop of simple_failure_paths over the first n lines
RECURSIVE SimpleLoop(_, _)
SimpleLoop(ls, n) ==
    IF n = 0 THEN [stack |-> <<>>, output |-> {}, panic |-> ""]
    ELSE LET Step(st) == IF st.panic # "" THEN st ELSE SimpleStep(ls, st, n - 1)
         IN  Step(SimpleLoop(ls, n - 1))

\* Program::simple_failure_paths
simple_failure_paths(ls) == SimpleLoop(ls, Len(ls))

\* the Commands the programs are drawn from
Commands ==
    {Cmd(k, FALSE) : k \in {"If", "Then", "Else", "End", "While", "Repeat",
                            "IsGt", "Other"}}
    \cup {Cmd(k, TRUE) : k \in {"If", "Else", "While"}}

CommandPrograms(max) == UNION {[1..n -> Commands] : n \in 1..max}

InitPaths ==
    /\ pc = "commands"
    /\ lines \in CommandPrograms(MaxCmds)
    /\ lines0 = <<>>
    /\ item = NoFloat
    /\ config = NoConfig
    /\ strategy = ""
    /\ tokens = <<>>
    /\ parsed = NumPanic
    /\ expr = NoExpr
    /\ savings = 0
    /\ stripped = <<>>
    /\ source = <<>>
    /\ round = 0
    /\ result = NoResult

\* Program::block_failure_paths on the program
BlockFailurePaths ==
    /\ pc = "commands"
    /\ result' = block_failure_paths(lines)
    /\ pc' = IF result'.panic # "" THEN "block_panicked" ELSE "block_paths"
    /\ UNCHANGED <<item, config, strategy, tokens, parsed, lines, lines0, expr,
                   savings, stripped, source, round>>

\* Program::simple_failure_paths on the program
SimpleFailurePaths ==
    /\ pc = "commands"
    /\ result' = simple_failure_paths(lines)
    /\ pc' = IF result'.panic # "" THEN "simple_panicked" ELSE "simple_paths"
    /\ UNCHANGED <<item, config, strategy, tokens, parsed, lines, lines0, expr,
                   savings, stripped, source, round>>

\* the loop of failure_paths over the entries of the block map, in the
\* order of their keys: the assertion, then the insertion
RECURSIVE FailurePathsLoop(_, _)
FailurePathsLoop(all, block) ==
    IF block = {} THEN [output |-> all, panic |-> ""]
    ELSE LET p == CHOOSE q \in block : \A r \in block : q[1] <= r[1] IN
         IF \E q \in all : q[1] = p[1]
         THEN [output |-> all,
               panic |-> "assertion failed: !all.contains_key(&source)"]
         ELSE FailurePathsLoop(MapInsert(all, p[1], p[2]), block \ {p})

\* Program::failure_paths: the two maps it calls for, and the map it returns
failure_paths(ls) ==
    LET Merge(simple, block) ==
            IF simple.panic # ""
            THEN [simple |-> {}, block |-> {}, output |-> {}, panic |-> simple.panic]
            ELSE IF block.panic # ""
            THEN [simple |-> simple.output, block |-> {}, output |-> {},
                  panic |-> block.panic]
            ELSE LET Merged(r) == [simple |-> simple.output, block |-> block.output,
                                   output |-> r.output, panic |-> r.panic]
                 IN  Merged(FailurePathsLoop(simple.output, block.output))
    IN  Merge(simple_failure_paths(ls), block_failure_paths(ls))

\* Program::failure_paths on the program
FailurePaths ==
    /\ pc = "commands"
    /\ result' = failure_paths(lines)
    /\ pc' = IF result'.panic = "" THEN "failure_paths"
             ELSE IF result'.panic = "assertion failed: !all.contains_key(&source)"
             THEN "assertion_failed"
             ELSE "paths_panicked"
    /\ UNCHANGED <<item, config, strategy, tokens, parsed, lines, lines0, expr,
                   savings, stripped, source, round>>

NextPaths == BlockFailurePaths \/ SimpleFailurePaths \/ FailurePaths

SpecPaths == InitPaths /\ [][NextPaths]_vars

----------------------------------------------------------------------------
(* Claims about failure paths.                                             *)

\* the line idx opens a block: If followed by Then, While, For(, Repeat, Else
IsBlockOpener(ls, idx) ==
    \/ LineAt(ls, idx).kind \in {"While", "For", "Repeat", "Else"}
    \/ LineAt(ls, idx).kind = "If" /\ PeekIsThen(ls, idx)

\* scanning forward from line j at nesting depth depth, a closer of the block
\* is found: an End at depth 0, or for an If-Then an Else at depth 0 that is
\* a statement of its own (not the valence of a DelVar chain)
RECURSIVE ClosedFrom(_, _, _, _)
ClosedFrom(ls, j, depth, if_then) ==
    IF j >= Len(ls) THEN FALSE
    ELSE LET kind == LineAt(ls, j).kind IN
         IF kind = "End"
         THEN depth = 0 \/ ClosedFrom(ls, j + 1, depth - 1, if_then)
         ELSE IF kind = "Else" /\ ~LineAt(ls, j).valence /\ depth = 0 /\ if_then
         THEN TRUE
         ELSE IF kind \in {"While", "For", "Repeat"}
                 \/ (kind = "If" /\ PeekIsThen(ls, j))
         THEN ClosedFrom(ls, j + 1, depth + 1, if_then)
         ELSE ClosedFrom(ls, j + 1, depth, if_then)

\* the block opened at line idx is closed by a later End or Else
IsClosed(ls, idx) ==
    ClosedFrom(ls, idx + 1, 0, LineAt(ls, idx).kind = "If")

\* C11: when the computation succeeds, every block opener that a later End
\* or Else closes has exactly one destination in block_failure_paths, and
\* every If without Then, Is>( and Ds<( at line idx is in
\* simple_failure_paths with destination idx + 2.
C11_FailurePathsComplete ==
    /\ pc = "block_paths" =>
         \A idx \in 0..(Len(lines) - 1) :
            (IsBlockOpener(lines, idx) /\ IsClosed(lines, idx)) =>
                Cardinality({p \in result.output : p[1] = idx}) = 1
    /\ pc = "simple_paths" =>
         \A idx \in 0..(Len(lines) - 1) :
            (\/ LineAt(lines, idx).kind \in {"IsGt", "DsLt"}
             \/ LineAt(lines, idx).kind = "If" /\ ~PeekIsThen(lines, idx)) =>
                <<idx, idx + 2>> \in result.output

\* C12: when block_failure_paths reaches the end of the program, every
\* branch still open on the stack has the program length as failure path.
C12_OpenBranchesEndAtProgramLength ==
    pc = "block_paths" =>
        \A k \in 1..Len(result.stack) :
            <<result.stack[k].idx, Len(lines)>> \in result.output


\* ------------------------------------------------------------------
\* C13: Program::optimize cannot fail: on every program the parser
\* accepts (the parser does not require a Goto or Menu label to have a
\* Lbl), the label-name pass followed by the parenthesis pass of every
\* statement ends without a panic.
C13_OptimizeNeverPanics == pc # "panicked"


\* ------------------------------------------------------------------
\* C14: unused and shadowed label declarations are eliminated: after
\* optimize_label_names every remaining Lbl carries a name that a Goto or a
\* Menu option uses, no two remaining Lbl carry the same name, a removed
\* declaration is replaced by Statement::None with the number and order of
\* the lines unchanged, and the first declaration of a used name is kept.
C14_UnusedAndShadowedDeclarationsEliminated ==
    pc = "renamed" =>
        /\ Len(lines) = Len(lines0)
        /\ \A i \in 1..Len(lines0) :
              /\ lines0[i].kind # "Lbl" => lines[i].kind = lines0[i].kind
              /\ lines0[i].kind = "Lbl" => lines[i].kind = "Lbl" \/ lines[i] = StmtNone
              /\ lines0[i].kind = "Lbl"
                 /\ (\E j \in 1..Len(lines0) :
                        \/ lines0[j] = Goto(lines0[i].label)
                        \/ lines0[j].kind = "Menu"
                           /\ \E k \in 1..Len(lines0[j].options) :
                                 lines0[j].options[k] = lines0[i].label)
                 /\ (\A j \in 1..(i - 1) : lines0[j] # lines0[i])
                 => lines[i].kind = "Lbl"
        /\ \A i \in 1..Len(lines) :
              lines[i].kind = "Lbl" =>
                 /\ \E j \in 1..Len(lines) :
                       \/ lines[j] = Goto(lines[i].label)
                       \/ lines[j].kind = "Menu"
                          /\ \E k \in 1..Len(lines[j].options) :
                                lines[j].options[k] = lines[i].label
                 /\ \A j \in 1..Len(lines) : lines[j] = lines[i] => j = i


\* ------------------------------------------------------------------
\* Generated label names (optimize/control_flow/label_name.rs)

\* the last rank of tests::label_names_distinct: DICTIONARY.len() squared
RankLimit == Len(DICTIONARY) * Len(DICTIONARY)

\* the byte check of LabelName::new
IsLabelByte(b) == (b >= 65 /\ b <= 91) \/ (b >= 48 /\ b <= 57)

InitNames ==
    /\ pc = "rank"
    /\ round \in 0..RankLimit
    /\ result = NoResult
    /\ lines = <<>>
    /\ lines0 = <<>>
    /\ item = NoFloat
    /\ config = NoConfig
    /\ strategy = ""
    /\ tokens = <<>>
    /\ parsed = NumPanic
    /\ expr = NoExpr
    /\ savings = 0
    /\ stripped = <<>>
    /\ source = <<>>

\* label_name(rank) for the drawn rank
GenerateLabelName ==
    /\ pc = "rank"
    /\ pc' = "named"
    /\ result' = [kind |-> "LabelName", name |-> label_name(round)]
    /\ UNCHANGED <<item, config, strategy, tokens, parsed, lines, lines0, expr, savings,
                   stripped, source, round>>

NextNames == GenerateLabelName

SpecNames == InitNames /\ [][NextNames]_vars

\* C15: generated label names are distinct and valid: for distinct ranks
\* r1, r2 in 0..=37*37 label_name(r1) differs from label_name(r2), and every
\* generated name is one or two bytes, each in 0x41..=0x5B or 0x30..=0x39.
C15_LabelNamesDistinctAndValid ==
    pc = "named" =>
        /\ IsLabelByte(result.name \div 256)
        /\ result.name % 256 = 0 \/ IsLabelByte(result.name % 256)
        /\ result.name < 65536
        /\ \A r \in 0..RankLimit : r # round => label_name(r) # result.name

\* the last rank of the range is named "63", from the digit-digit block
C15_Witness ==
    /\ pc = "named"
    /\ round = RankLimit
    /\ result.name = LabelName2(54, 51)


\* ------------------------------------------------------------------
\* Label ranking and label usages on programs that open with their
\* declarations (optimize/control_flow/label_name.rs,
\* analyze/control_flow/labels.rs)

MaxUses == 2

\* the statements after the declarations: Goto, Menu with two options, others
BodyStatements ==
    {StmtOther}
    \cup {Goto(n) : n \in LabelNames}
    \cup {Menu(o) : o \in LabelNames \X LabelNames}

\* MaxLabels Lbl lines: a name may be declared twice and another not at all
Declarations == [1..MaxLabels -> {Lbl(n) : n \in LabelNames}]

\* up to MaxUses lines after the declarations
Bodies(max) == UNION {[1..n -> BodyStatements] : n \in 0..max}

InitRenaming ==
    /\ pc = "parsed"
    /\ \E d \in Declarations : \E u \in Bodies(MaxUses) : lines = d \o u
    /\ lines0 = lines
    /\ item = NoFloat
    /\ config = NoConfig
    /\ strategy = ""
    /\ tokens = <<>>
    /\ parsed = NumPanic
    /\ expr = NoExpr
    /\ savings = 0
    /\ stripped = <<>>
    /\ source = <<>>
    /\ round = 0
    /\ result = NoResult

\* Program::label_usages on the parsed program: the map from the used
\* names to their usage lines
LabelUsages ==
    /\ pc = "parsed"
    /\ pc' = "usages"
    /\ result' = [kind |-> "Usages",
                  map |-> [l \in UsedLabels(lines) |-> label_usages(lines, l, Len(lines))]]
    /\ UNCHANGED <<item, config, strategy, tokens, parsed, lines, lines0, expr, savings,
                   stripped, source, round>>

NextRenaming == OptimizeLabelNames \/ LabelUsages

SpecRenaming == InitRenaming /\ [][NextRenaming]_vars

\* the references to name in ls: <<line, 0>> for a Goto, <<line, k>> for the
\* k-th option of a Menu
References(ls, name) ==
    {<<i, 0>> : i \in {j \in 1..Len(ls) : ls[j] = Goto(name)}}
    \cup {p \in (1..Len(ls)) \X (1..2) :
             ls[p[1]].kind = "Menu" /\ ls[p[1]].options[p[2]] = name}

\* the line of the first Lbl name of ls
FirstLbl(ls, name) ==
    CHOOSE i \in 1..Len(ls) : ls[i] = Lbl(name) /\ \A j \in 1..(i - 1) : ls[j] # Lbl(name)

\* C16: labels are renamed in order of descending usage count: after
\* optimize_label_names, a label X with strictly more usages (Goto
\* statements plus Menu options) than a label Y is named label_name(r) and
\* Y label_name(s) with r < s, and the most used label is named 'A'.
C16_RenamedByDescendingUsage ==
    pc = "renamed" =>
        LET used == {n \in LabelNames : References(lines0, n) # {}}
            count(n) == Cardinality(References(lines0, n))
            new(n) == lines[FirstLbl(lines0, n)]
        IN  /\ \A X \in used : \A Y \in used :
                  count(X) > count(Y) =>
                     \E r \in 0..(Cardinality(used) - 1) : \E s \in 0..(Cardinality(used) - 1) :
                        /\ r < s
                        /\ new(X) = Lbl(label_name(r))
                        /\ new(Y) = Lbl(label_name(s))
            /\ \A X \in used :
                  (\A Y \in used \ {X} : count(X) > count(Y)) => new(X) = Lbl(LabelName1(65))

\* Lbl 0, Lbl A, Menu(0, A), Goto A: A has two usages and becomes A, 0 has
\* one and becomes B
C16_Witness ==
    /\ pc = "renamed"
    /\ lines0 = <<Lbl(LabelName1(48)), Lbl(LabelName1(65)),
                  Menu(<<LabelName1(48), LabelName1(65)>>), Goto(LabelName1(65))>>
    /\ lines[1] = Lbl(LabelName1(66))
    /\ lines[2] = Lbl(LabelName1(65))


\* C17: label_usages has one entry per reference: the list stored for a
\* name holds, in ascending line order, the line of each Goto naming it once
\* and the line of each Menu once for every option of that Menu naming it,
\* and a name with no reference is absent from the map.
C17_OneUsagePerReference ==
    pc = "usages" =>
        /\ DOMAIN result.map = {n \in LabelNames : References(lines, n) # {}}
        /\ \A n \in DOMAIN result.map :
              LET list == result.map[n] IN
              /\ \A k \in 1..(Len(list) - 1) : list[k] <= list[k + 1]
              /\ Len(list) = Cardinality(References(lines, n))
              /\ \A i \in 1..Len(lines) :
                    Cardinality({k \in 1..Len(list) : list[k] = i})
                    = Cardinality({p \in References(lines, n) : p[1] = i})

\* Lbl 0, Lbl A, Menu(0, 0), Goto 0: the Menu line twice, then the Goto
\* line, and no entry for A
C17_Witness ==
    /\ pc = "usages"
    /\ lines = <<Lbl(LabelName1(48)), Lbl(LabelName1(65)),
                 Menu(<<LabelName1(48), LabelName1(48)>>), Goto(LabelName1(48))>>
    /\ result.map[LabelName1(48)] = <<3, 3, 4>>
    /\ LabelName1(65) \notin DOMAIN result.map


----------------------------------------------------------------------------
(* The tokenizer: Tokenizer::new, tokenize and stringify                   *)
(* (tokens/src/tokenizer.rs). Text is a sequence of bytes.                 *)

MaxText == 3

\* the entries of the token sheet that tests::tokenize and
\* tests::stringify_with_boundaries name, with their accessible spelling:
\* newline, randInt(, X, ^^2, the comma, Y, -> and A
DATA ==
    << [token |-> 63, accessible |-> <<10>>],
       [token |-> TwoByte(187, 10),
        accessible |-> <<114, 97, 110, 100, 73, 110, 116, 40>>],
       [token |-> 88, accessible |-> <<88>>],
       [token |-> 13, accessible |-> <<94, 94, 50>>],
       [token |-> 43, accessible |-> <<44>>],
       [token |-> 89, accessible |-> <<89>>],
       [token |-> 4, accessible |-> <<45, 62>>],
       [token |-> 65, accessible |-> <<65>>] >>

\* BTreeMap::insert / Trie::insert of the first n pairs, a later pair
\* replacing an earlier one of the same key
RECURSIVE InsertAll(_, _)
InsertAll(pairs, n) ==
    IF n = 0 THEN {}
    ELSE {p \in InsertAll(pairs, n - 1) : p[1] # pairs[n][1]} \cup {pairs[n]}

\* Tokenizer::new: names, from the token to its accessible spelling
Names == InsertAll([i \in 1..Len(DATA) |-> <<DATA[i].token, DATA[i].accessible>>], Len(DATA))

\* Tokenizer::new: trie, from the accessible spelling to the token, with the
\* extra key "\r\n" for the newline token
TokenTrie ==
    InsertAll([i \in 1..Len(DATA) |-> <<DATA[i].accessible, DATA[i].token>>]
              \o << <<(<<13, 10>>), 63>> >>,
              Len(DATA) + 1)

\* whether key is a prefix of text[pos..], pos counted from 0
IsPrefixAt(key, text, pos) ==
    /\ pos + Len(key) <= Len(text)
    /\ \A k \in 1..Len(key) : text[pos + k] = key[k]

\* Trie::get_ancestor(&text[pos..]): the entry with the longest key that is
\* a prefix of the rest of the text
get_ancestor(text, pos) ==
    LET found == {p \in TokenTrie : IsPrefixAt(p[1], text, pos)} IN
    IF found = {} THEN None
    ELSE Some(CHOOSE p \in found : \A q \in found : Len(q[1]) <= Len(p[1]))

\* Tokenizer::tokenize from position pos with the tokens found so far
RECURSIVE TokenizeFrom(_, _, _)
TokenizeFrom(text, pos, acc) ==
    IF pos >= Len(text) THEN [err |-> FALSE, tokens |-> acc]
    ELSE LET Step(subtree) ==
                 IF subtree = None THEN [err |-> TRUE, tokens |-> <<>>]
                 ELSE TokenizeFrom(text, pos + Len(subtree.val[1]),
                                   Append(acc, subtree.val[2]))
         IN  Step(get_ancestor(text, pos))

\* Tokenizer::tokenize
tokenize(text) == TokenizeFrom(text, 0, <<>>)

\* a lowercase hexadecimal digit
HexDigit(d) == IF d < 10 THEN 48 + d ELSE 87 + d

\* Token::string_escaped: \x{..} with two digits per byte
string_escaped(tok) ==
    LET byte(b) == <<HexDigit(b \div 16), HexDigit(b % 16)>> IN
    <<92, 120, 123>>
    \o (IF tok >= 256 THEN byte(tok \div 256) \o byte(tok % 256) ELSE byte(tok))
    \o <<125>>

\* the name stringify writes for tok
NameOf(tok) ==
    IF \E p \in Names : p[1] = tok
    THEN (CHOOSE p \in Names : p[1] = tok)[2]
    ELSE string_escaped(tok)

\* Tokenizer::stringify: the text of the first n tokens
RECURSIVE stringify(_, _)
stringify(toks, n) ==
    IF n = 0 THEN <<>> ELSE stringify(toks, n - 1) \o NameOf(toks[n])

\* the bytes the texts are made of: \r, \n, the comma, - > A ^ 2
TextAlphabet == {13, 10, 44, 45, 62, 65, 94, 50}

Texts(max) == UNION {[1..n -> TextAlphabet] : n \in 0..max}

InitTokenizer ==
    /\ pc = "text"
    /\ source \in Texts(MaxText)
    /\ tokens = <<>>
    /\ result = NoResult
    /\ lines = <<>>
    /\ lines0 = <<>>
    /\ item = NoFloat
    /\ config = NoConfig
    /\ strategy = ""
    /\ parsed = NumPanic
    /\ expr = NoExpr
    /\ savings = 0
    /\ stripped = <<>>
    /\ round = 0

\* Tokenizer::tokenize on the text
Tokenize ==
    /\ pc = "text"
    /\ \E r \in {tokenize(source)} :
          /\ pc' = IF r.err THEN "tokenize_err" ELSE "tokenized"
          /\ tokens' = r.tokens
    /\ UNCHANGED <<result, item, config, strategy, parsed, lines, lines0, expr, savings,
                   stripped, source, round>>

\* Tokenizer::stringify on the tokens of the text
Stringify ==
    /\ pc = "tokenized"
    /\ pc' = "stringified"
    /\ result' = [kind |-> "Text", text |-> stringify(tokens, Len(tokens))]
    /\ UNCHANGED <<item, config, strategy, tokens, parsed, lines, lines0, expr, savings,
                   stripped, source, round>>

NextTokenizer == Tokenize \/ Stringify

SpecTokenizer == InitTokenizer /\ [][NextTokenizer]_vars

\* C18: tokenization round trip: for every text on which tokenize succeeds,
\* stringify of the resulting tokens is exactly the original text.
C18_TokenizeStringifyRoundTrip ==
    pc = "stringified" => result.text = source


----------------------------------------------------------------------------
(* Line partitioning: data::Program::from_tokens                           *)
(* (ti-basic-optimizer/src/data.rs).                                       *)

MaxProgram == 4

\* Line
Line(toks, index) == [tokens |-> toks, original_line_number |-> index]

\* the take_while closure with the store arrow leaving in_string as it is
TakeStepStoreKeepsString(tok, in_string) ==
    IF tok = TokQuote THEN [in_string |-> ~in_string, take |-> TRUE, newline |-> FALSE]
    ELSE IF tok = TokStore THEN [in_string |-> in_string, take |-> TRUE, newline |-> FALSE]
    ELSE IF tok = TokNewline THEN [in_string |-> FALSE, take |-> FALSE, newline |-> TRUE]
    ELSE IF tok = TokColon /\ ~in_string
    THEN [in_string |-> FALSE, take |-> FALSE, newline |-> FALSE]
    ELSE [in_string |-> in_string, take |-> TRUE, newline |-> FALSE]

\* the take_while closure on one token: the new in_string, whether the
\* token is taken into the line, and whether it sets ended_with_newline
TakeStep(tok, in_string) ==
    IF tok = TokQuote THEN [in_string |-> ~in_string, take |-> TRUE, newline |-> FALSE]
    ELSE IF tok = TokStore THEN [in_string |-> FALSE, take |-> TRUE, newline |-> FALSE]
    ELSE IF tok = TokNewline THEN [in_string |-> FALSE, take |-> FALSE, newline |-> TRUE]
    ELSE IF tok = TokColon /\ ~in_string
    THEN [in_string |-> FALSE, take |-> FALSE, newline |-> FALSE]
    ELSE [in_string |-> in_string, take |-> TRUE, newline |-> FALSE]

\* tokens.by_ref().take_while(..).collect() from position pos (counted from
\* 1): the line, the position after the token that ended it, in_string and
\* ended_with_newline
RECURSIVE TakeLine(_, _, _, _)
TakeLine(toks, pos, in_string, line) ==
    IF pos > Len(toks)
    THEN [line |-> line, pos |-> pos, in_string |-> in_string, newline |-> FALSE]
    ELSE LET Step(s) ==
                 IF s.take THEN TakeLine(toks, pos + 1, s.in_string, Append(line, toks[pos]))
                 ELSE [line |-> line, pos |-> pos + 1, in_string |-> s.in_string,
                       newline |-> s.newline]
         IN  Step(TakeStep(toks[pos], in_string))

\* the while loop of from_tokens
RECURSIVE FromTokensLoop(_, _, _, _, _)
FromTokensLoop(toks, pos, in_string, index, lns) ==
    IF pos > Len(toks) THEN lns
    ELSE LET Step(t) ==
                 FromTokensLoop(toks, t.pos, t.in_string,
                                IF t.newline THEN index + 1 ELSE index,
                                Append(lns, Line(t.line, index)))
         IN  Step(TakeLine(toks, pos, in_string, <<>>))

\* data::Program::from_tokens
from_tokens(toks) == FromTokensLoop(toks, 1, FALSE, 1, <<>>)

\* the tokens the programs are made of: quote, store arrow, colon, newline, A
LineAlphabet == {TokQuote, TokStore, TokColon, TokNewline, TokVarA}

TokenPrograms(max) == UNION {[1..n -> LineAlphabet] : n \in 0..max}

InitLines ==
    /\ pc = "tokens"
    /\ tokens \in TokenPrograms(MaxProgram)
    /\ result = NoResult
    /\ source = <<>>
    /\ lines = <<>>
    /\ lines0 = <<>>
    /\ item = NoFloat
    /\ config = NoConfig
    /\ strategy = ""
    /\ parsed = NumPanic
    /\ expr = NoExpr
    /\ savings = 0
    /\ stripped = <<>>
    /\ round = 0

\* data::Program::from_tokens on the tokens
FromTokens ==
    /\ pc = "tokens"
    /\ pc' = "partitioned"
    /\ result' = [kind |-> "Program", lines |-> from_tokens(tokens)]
    /\ UNCHANGED <<item, config, strategy, tokens, parsed, lines, lines0, expr, savings,
                   stripped, source, round>>

NextLines == FromTokens

SpecLines == InitLines /\ [][NextLines]_vars

\* whether position k of toks is inside a string: an odd number of quotes
\* since the last store arrow or newline before k
InStringScope(toks, k) ==
    LET resets == {j \in 1..(k - 1) : toks[j] = TokStore \/ toks[j] = TokNewline}
        last == IF resets = {} THEN 0 ELSE CHOOSE j \in resets : \A i \in resets : i <= j
    IN  Cardinality({j \in (last + 1)..(k - 1) : toks[j] = TokQuote}) % 2 = 1

\* the positions that end a line: every newline, and every colon outside
\* a string
LineEnds(toks) ==
    {k \in 1..Len(toks) :
        toks[k] = TokNewline \/ (toks[k] = TokColon /\ ~InStringScope(toks, k))}

\* C19: line partitioning respects string scope: a colon ends the current
\* line if and only if it is outside a string (the in-string state toggles
\* at every quote and is cleared by the store arrow and by the newline), a
\* newline always ends the line, and the recorded line number increases only
\* at a newline, not at a colon.
C19_LinesRespectStringScope ==
    pc = "partitioned" =>
        LET ends == LineEnds(tokens)
            NthEnd(i) == CHOOSE b \in ends : Cardinality({c \in ends : c < b}) = i - 1
            first(i) == IF i = 1 THEN 1 ELSE NthEnd(i - 1) + 1
            last(i) == IF i <= Cardinality(ends) THEN NthEnd(i) - 1 ELSE Len(tokens)
            tail == IF \E k \in 1..Len(tokens) : \A b \in ends : b < k THEN 1 ELSE 0
        IN  /\ Len(result.lines) = Cardinality(ends) + tail
            /\ \A i \in 1..Len(result.lines) :
                  /\ result.lines[i].tokens = SubSeq(tokens, first(i), last(i))
                  /\ result.lines[i].original_line_number
                     = 1 + Cardinality({b \in ends : b < first(i) /\ tokens[b] = TokNewline})

\* quote, colon, newline, colon: the first colon is inside the string, the
\* newline ends line 1 and the second colon ends an empty line numbered 2
C19_Witness ==
    /\ pc = "partitioned"
    /\ tokens = <<TokQuote, TokColon, TokNewline, TokColon>>
    /\ result.lines = <<Line(<<TokQuote, TokColon>>, 1), Line(<<>>, 2)>>


----------------------------------------------------------------------------
(* Program names: ProgramName::parse                                       *)
(* (ti-basic-optimizer/src/parse/commands/prgm.rs).                        *)

MaxName == 9

\* the prgm token
TokPrgm == 95

\* the while loop of ProgramName::parse: more is at position pos (the next
\* token is toks[pos]) and name holds the tokens pushed so far
RECURSIVE ProgramNameLoop(_, _, _)
ProgramNameLoop(toks, pos, name) ==
    IF pos > Len(toks) THEN [err |-> "", name |-> name, pos |-> pos]
    ELSE IF \/ name # <<>> /\ is_alpha(toks[pos])
            \/ name = <<>> /\ is_alphanumeric(toks[pos])
    THEN IF Len(name) > 8
         THEN [err |-> "Program name has too many characters (max 8)",
               name |-> name, pos |-> pos + 1]
         ELSE ProgramNameLoop(toks, pos + 1, Append(name, toks[pos]))
    ELSE [err |-> "", name |-> name, pos |-> pos]

\* ProgramName::parse(token, more) with token = toks[1] and more the rest
ProgramNameParse(toks) ==
    IF toks[1] # TokPrgm THEN [kind |-> "None", name |-> <<>>, err |-> "", pos |-> 2]
    ELSE LET Step(r) ==
                 IF r.err # "" THEN [kind |-> "Err", name |-> <<>>, err |-> r.err, pos |-> r.pos]
                 ELSE IF r.name = <<>>
                 THEN [kind |-> "Err", name |-> <<>>, err |-> "Expected a program name.",
                       pos |-> r.pos]
                 ELSE [kind |-> "Some", name |-> r.name, err |-> "", pos |-> r.pos]
         IN  Step(ProgramNameLoop(toks, 2, <<>>))

\* the tokens after the first: the letter A, the digit 1 and an operator
NameAlphabet == {TokVarA, TokOne, TokAdd}

InitPrgm ==
    /\ pc = "prgm"
    /\ \E first \in {TokPrgm, TokVarA} : \E n \in 0..MaxName :
          \E rest \in [1..n -> NameAlphabet] : tokens = <<first>> \o rest
    /\ result = NoResult
    /\ source = <<>>
    /\ lines = <<>>
    /\ lines0 = <<>>
    /\ item = NoFloat
    /\ config = NoConfig
    /\ strategy = ""
    /\ parsed = NumPanic
    /\ expr = NoExpr
    /\ savings = 0
    /\ stripped = <<>>
    /\ round = 0

\* ProgramName::parse on the first token and the rest
ParseProgramName ==
    /\ pc = "prgm"
    /\ pc' = "prgm_parsed"
    /\ result' = ProgramNameParse(tokens)
    /\ UNCHANGED <<item, config, strategy, tokens, parsed, lines, lines0, expr, savings,
                   stripped, source, round>>

NextPrgm == ParseProgramName

SpecPrgm == InitPrgm /\ [][NextPrgm]_vars

\* the number of tokens after the prgm token that form a name: a letter,
\* then letters and digits
NameRun(toks) ==
    IF Len(toks) < 2 \/ ~is_alpha(toks[2]) THEN 0
    ELSE CHOOSE n \in 1..(Len(toks) - 1) :
            /\ \A k \in 2..(n + 1) : is_alphanumeric(toks[k])
            /\ n + 2 <= Len(toks) => ~is_alphanumeric(toks[n + 2])

\* C20: program-name validation: ProgramName::parse accepts exactly the
\* names of 1 to 8 alphanumeric tokens whose first token is a letter (A-Z or
\* theta) and whose following tokens are letters or digits, and returns a
\* parse error for a name of more than 8 characters.
C20_ProgramNameValidation ==
    pc = "prgm_parsed" /\ tokens[1] = TokPrgm =>
        /\ result.kind = "Some" =>
              /\ Len(result.name) \in 1..8
              /\ is_alpha(result.name[1])
              /\ \A k \in 1..Len(result.name) : is_alphanumeric(result.name[k])
        /\ NameRun(tokens) \in 1..8 =>
              /\ result.kind = "Some"
              /\ result.name = SubSeq(tokens, 2, NameRun(tokens) + 1)
        /\ NameRun(tokens) > 8 => result.kind = "Err"


----------------------------------------------------------------------------
(* Further claims about numeric-literal emission.                          *)

\* C21: reference speed costs: WriteDigits::speed_cost is Some(19540) for
\* 1*10^6 and Some(21578) for 1*10^7, FPartWithExponent::speed_cost is
\* Some(11635) for 1*10^1 and for 1*10^2, each the sum of the component
\* costs: base 5020, integer digit 1976, fractional digit 1867, shifting 79
\* at every second digit, zero digit 62, decimal point 1123, exponent base
\* 3546.
C21_ReferenceSpeedCosts ==
    pc = "emitted" =>
        /\ BASE_COST = 5020 /\ DIGIT_COST = 1976 /\ FRAC_DIGIT_COST = 1867
        /\ SHIFTING_COST = 79 /\ ZERO_SIGFIG_COST = 62 /\ DECIMAL_POINT_COST = 1123
        /\ EXPONENT_BASE_COST = 3546
        /\ (strategy = "WriteDigits" /\ item = Float(FALSE, 6, <<1>>)) =>
              /\ speed_cost(strategy, item, config) = Some(19540)
              /\ 19540 = BASE_COST + 6 * (DIGIT_COST + ZERO_SIGFIG_COST)
                         + 3 * SHIFTING_COST + DIGIT_COST + SHIFTING_COST
        /\ (strategy = "WriteDigits" /\ item = Float(FALSE, 7, <<1>>)) =>
              /\ speed_cost(strategy, item, config) = Some(21578)
              /\ 21578 = BASE_COST + 7 * (DIGIT_COST + ZERO_SIGFIG_COST)
                         + 3 * SHIFTING_COST + DIGIT_COST + SHIFTING_COST
        /\ (strategy = "FPartWithExponent"
            /\ item \in {Float(FALSE, 1, <<1>>), Float(FALSE, 2, <<1>>)}) =>
              /\ speed_cost(strategy, item, config) = Some(11635)
              /\ 11635 = BASE_COST + DECIMAL_POINT_COST + FRAC_DIGIT_COST
                         + SHIFTING_COST + EXPONENT_BASE_COST

\* FPartWithExponent emitted for 1*10^2, whose speed cost is 11635
C21_Witness ==
    /\ pc = "emitted"
    /\ strategy = "FPartWithExponent"
    /\ item = Float(FALSE, 2, <<1>>)
    /\ speed_cost(strategy, item, config) = Some(11635)


----------------------------------------------------------------------------
(* Further claims about expressions.                                       *)

\* whether e reconstructs to tokens that parse to e again
RoundTrips(e, cfg) ==
    LET Same(r) == r.err = "" /\ r.expr = e /\ r.pos > Len(ExprReconstruct(e, cfg))
    IN  Same(ExpressionParse(ExprReconstruct(e, cfg), 1))

\* whether BinOp::reconstruct leaves out the multiplication token of e
OmitsMul(e) ==
    /\ IsBinary(e)
    /\ e.kind = TokMul
    /\ ~(IsOperand(e.left)
         /\ (e.left.node = "Ans"
             \/ (e.left.node = "NumericLiteral" /\ e.right.node = "NumericLiteral")))

\* C22: implicit-multiplication safety: whenever BinOp::reconstruct omits
\* the multiplication token, parsing the emitted tokens again yields a
\* multiplication with the same left and right operand subtrees, for every
\* left operand and every right operand (here: operands that parse back to
\* themselves when reconstructed on their own).
C22_ImplicitMultiplicationSafe ==
    (pc = "reparsed" /\ OmitsMul(expr)
     /\ RoundTrips(expr.left, config) /\ RoundTrips(expr.right, config)) =>
        /\ result.err = ""
        /\ IsBinary(result.expr)
        /\ result.expr.kind = TokMul
        /\ result.expr.left = expr.left
        /\ result.expr.right = expr.right


----------------------------------------------------------------------------
(* For( loops: ForLoop::parse and ForLoop::reconstruct                     *)
(* (parse/statements/control_flow/for_loop.rs).                            *)

\* the For( token
TokFor == 211

\* ForLoop; step is None or Some(expression)
ForLoop(iterator, start, end, step, has_ending_paren) ==
    [node |-> "ForLoop", iterator |-> iterator, start |-> start, end |-> end,
     step |-> step, has_ending_paren |-> has_ending_paren]

\* ForLoop::reconstruct
ForLoopReconstruct(f, cfg) ==
    <<TokFor>>
    \o ExprReconstruct(f.iterator, cfg)
    \o <<TokComma>>
    \o ExprReconstruct(f.start, cfg)
    \o <<TokComma>>
    \o ExprReconstruct(f.start, cfg)
    \o (IF ~f.step.none THEN <<TokComma>> \o ExprReconstruct(f.step.val, cfg) ELSE <<>>)
    \o (IF f.has_ending_paren THEN <<TokCloseParen>> ELSE <<>>)

\* expect_some!(Expression::parse(next_or_err!(more)?, more)?, ..) with more
\* standing at pos
ExpectExpression(toks, pos) ==
    IF pos > Len(toks) THEN [err |-> "Unexpected end of input.", expr |-> NoExpr, pos |-> pos]
    ELSE ExpressionParse(toks, pos)

\* expect_tok!(more, Token::OneByte(0x2B), ..) with more standing at pos
ExpectComma(toks, pos) ==
    IF pos > Len(toks) THEN "Unexpected end of input."
    ELSE IF toks[pos] # TokComma THEN "Expected a comma."
    ELSE ""

\* ForLoop::parse(token, more) with token = toks[1] and more the rest
ForLoopParse(toks) ==
    IF toks[1] # TokFor THEN [err |-> "", some |-> FALSE]
    ELSE LET Failed(e) == [err |-> e, some |-> FALSE]
             Finish(i, s, e, step, pos) ==
                 [err |-> "", some |-> TRUE,
                  loop |-> ForLoop(i, s, e, step, FALSE),
                  pos |-> IF Peek(toks, pos) = TokCloseParen THEN pos + 1 ELSE pos]
             WithStep(i, s, e, st) ==
                 IF st.err # "" THEN Failed(st.err)
                 ELSE Finish(i, s, e, Some(st.expr), st.pos)
             AfterEnd(i, s, e) ==
                 IF e.err # "" THEN Failed(e.err)
                 ELSE IF Peek(toks, e.pos) = TokComma
                 THEN WithStep(i, s, e.expr, ExpectExpression(toks, e.pos + 1))
                 ELSE Finish(i, s, e.expr, None, e.pos)
             AfterStart(i, s) ==
                 IF s.err # "" THEN Failed(s.err)
                 ELSE IF ExpectComma(toks, s.pos) # "" THEN Failed(ExpectComma(toks, s.pos))
                 ELSE AfterEnd(i, s.expr, ExpectExpression(toks, s.pos + 1))
             AfterIterator(i) ==
                 IF i.err # "" THEN Failed(i.err)
                 ELSE IF ExpectComma(toks, i.pos) # "" THEN Failed(ExpectComma(toks, i.pos))
                 ELSE AfterStart(i.expr, ExpectExpression(toks, i.pos + 1))
         IN  AfterIterator(ExpectExpression(toks, 2))

\* the expressions the loops are made of
ForExpressions ==
    {NumericVarName(TokVarA), NumericLiteral(Float(FALSE, 0, <<1>>)),
     NumericLiteral(Float(FALSE, 0, <<2>>)),
     Binary(TokAdd, NumericVarName(TokVarA), NumericLiteral(Float(FALSE, 0, <<1>>)))}

InitFor ==
    /\ pc = "for"
    /\ \E s \in ForExpressions, e \in ForExpressions, p \in BOOLEAN,
          step \in {None} \cup {Some(x) : x \in ForExpressions} :
          expr = ForLoop(NumericVarName(TokVarA), s, e, step, p)
    /\ tokens = <<>>
    /\ result = NoResult
    /\ source = <<>>
    /\ lines = <<>>
    /\ lines0 = <<>>
    /\ item = NoFloat
    /\ config = NoConfig
    /\ strategy = ""
    /\ parsed = NumPanic
    /\ savings = 0
    /\ stripped = <<>>
    /\ round = 0

\* ForLoop::reconstruct
ReconstructFor ==
    /\ pc = "for"
    /\ \E cfg \in Configs :
         /\ config' = cfg
         /\ tokens' = ForLoopReconstruct(expr, cfg)
    /\ pc' = "for_reconstructed"
    /\ UNCHANGED <<result, item, strategy, parsed, lines, lines0, expr, savings,
                   stripped, source, round>>

\* ForLoop::parse on the reconstructed tokens
ParseFor ==
    /\ pc = "for_reconstructed"
    /\ pc' = "for_parsed"
    /\ result' = ForLoopParse(tokens)
    /\ UNCHANGED <<item, config, strategy, tokens, parsed, lines, lines0, expr, savings,
                   stripped, source, round>>

NextFor == ReconstructFor \/ ParseFor

SpecFor == InitFor /\ [][NextFor]_vars

\* C23: reconstructing a For( loop emits the For( token followed by the
\* reconstructions of its iterator, start, end and (when present) step, in
\* that order and separated by commas, so that parsing the emitted tokens
\* gives back a ForLoop with the same iterator, start, end and step.
C23_ForLoopRoundTrip ==
    /\ pc = "for_reconstructed" =>
          \E close \in {<<>>, <<TokCloseParen>>} :
             tokens = <<TokFor>> \o ExprReconstruct(expr.iterator, config)
                      \o <<TokComma>> \o ExprReconstruct(expr.start, config)
                      \o <<TokComma>> \o ExprReconstruct(expr.end, config)
                      \o (IF expr.step.none THEN <<>>
                          ELSE <<TokComma>> \o ExprReconstruct(expr.step.val, config))
                      \o close
    /\ pc = "for_parsed" =>
          /\ result.err = ""
          /\ result.some
          /\ result.loop.iterator = expr.iterator
          /\ result.loop.start = expr.start
          /\ result.loop.end = expr.end
          /\ result.loop.step = expr.step


\* C24: reconstructing a prefix negation whose child is a binary operator
\* other than * or / emits the negation token, an opening parenthesis
\* (0x10), the child's tokens and a closing parenthesis (0x11); for any other
\* child it emits the negation token followed directly by the child's tokens.
C24_NegationParenthesizesLooseChild ==
    (pc = "reconstructed" /\ expr.node = "Unary" /\ expr.kind = 176) =>
        tokens = IF expr.child.node = "Binary" /\ expr.child.kind \notin {130, 131}
                 THEN <<176, 16>> \o ExprReconstruct(expr.child, config) \o <<17>>
                 ELSE <<176>> \o ExprReconstruct(expr.child, config)


----------------------------------------------------------------------------
(* Associativity in Builder::push_binop (parse/expression.rs).             *)

\* the power token
TokPower == 240

\* the operators between the three operands: or, and, =, +, -, *, /, nPr, ^
AssocOperators == {60, 64, 106, TokAdd, TokSub, TokMul, TokDiv, 148, TokPower}

InitAssoc ==
    /\ pc = "operators"
    /\ \E a \in AssocOperators, b \in AssocOperators :
          tokens = <<TokVarA, a, TokVarA + 1, b, TokVarA + 2>>
    /\ expr = NoExpr
    /\ result = NoResult
    /\ source = <<>>
    /\ lines = <<>>
    /\ lines0 = <<>>
    /\ item = NoFloat
    /\ config = NoConfig
    /\ strategy = ""
    /\ parsed = NumPanic
    /\ savings = 0
    /\ stripped = <<>>
    /\ round = 0

\* Builder::build on the tokens
BuildExpression ==
    /\ pc = "operators"
    /\ pc' = "built"
    /\ result' = ExpressionParse(tokens, 1)
    /\ UNCHANGED <<item, config, strategy, tokens, parsed, lines, lines0, expr, savings,
                   stripped, source, round>>

NextAssoc == BuildExpression

SpecAssoc == InitAssoc /\ [][NextAssoc]_vars

\* C25: two consecutive binary operators of the same precedence other than
\* power parse left-associatively (A-B-C is (A-B)-C), while ^ is
\* right-associative: A^B^C parses as A^(B^C).
C25_Associativity ==
    (pc = "built"
     /\ recognize_precedence(tokens[2]) = recognize_precedence(tokens[4])) =>
        /\ result.err = ""
        /\ result.expr =
              IF tokens[2] = TokPower
              THEN Binary(TokPower, NumericVarName(tokens[1]),
                          Binary(TokPower, NumericVarName(tokens[3]),
                                 NumericVarName(tokens[5])))
              ELSE Binary(tokens[4],
                          Binary(tokens[2], NumericVarName(tokens[1]),
                                 NumericVarName(tokens[3])),
                          NumericVarName(tokens[5]))


----------------------------------------------------------------------------
(* The loop of block_failure_paths, one line at a time: round is the index *)
(* of the next line, result holds the stack and the map built so far.      *)

InitBlock ==
    /\ pc = "block_loop"
    /\ lines \in CommandPrograms(MaxCmds)
    /\ round = 0
    /\ result = [stack |-> <<>>, output |-> {}, panic |-> ""]
    /\ lines0 = <<>>
    /\ item = NoFloat
    /\ config = NoConfig
    /\ strategy = ""
    /\ tokens = <<>>
    /\ parsed = NumPanic
    /\ expr = NoExpr
    /\ savings = 0
    /\ stripped = <<>>
    /\ source = <<>>

\* while let Some((idx, command)) = lines.next() { .. }: one iteration
BlockIteration ==
    /\ pc = "block_loop"
    /\ round < Len(lines)
    /\ result' = BlockStep(lines, result, round)
    /\ round' = round + 1
    /\ pc' = IF result'.panic # "" THEN "block_panicked" ELSE "block_loop"
    /\ UNCHANGED <<item, config, strategy, tokens, parsed, lines, lines0, expr,
                   savings, stripped, source>>

\* lines.next() is None: the map is returned
BlockReturn ==
    /\ pc = "block_loop"
    /\ round = Len(lines)
    /\ pc' = "block_paths"
    /\ UNCHANGED <<item, config, strategy, tokens, parsed, lines, lines0, expr,
                   savings, stripped, source, round, result>>

NextBlock == BlockIteration \/ BlockReturn

SpecBlock == InitBlock /\ [][NextBlock]_vars

\* the next line of the loop is an Else
AtElse ==
    pc = "block_loop" /\ round < Len(lines) /\ LineAt(lines, round).kind = "Else"

\* k is the position of the nearest branch of the stack that is not a DelVar
\* valence, and that branch is an If-Then
NearestIsIfThen(stack, k) ==
    /\ k \in 1..Len(stack)
    /\ ~stack[k].is_delvar_valence
    /\ \A j \in (k + 1)..Len(stack) : stack[j].is_delvar_valence
    /\ stack[k].kind = "IfThen"

\* the If-Then at k is removed, its failure path is the line after the Else,
\* and an Else with has_if_then = true is pushed
ElseClosesIfThen(k) ==
    /\ Len(result'.stack) = Len(result.stack)
    /\ \A j \in 1..(k - 1) : result'.stack[j] = result.stack[j]
    /\ \A j \in k..(Len(result.stack) - 1) : result'.stack[j] = result.stack[j + 1]
    /\ result'.stack[Len(result.stack)] =
          Branch("Else", TRUE, round, LineAt(lines, round).valence)
    /\ <<result.stack[k].idx, round + 1>> \in result'.output
    /\ \A p \in result'.output :
          p[1] = result.stack[k].idx => p[2] = round + 1
    /\ \A p \in result.output :
          p[1] # result.stack[k].idx => p \in result'.output
    /\ \A p \in result'.output :
          p[1] # result.stack[k].idx => p \in result.output

\* nothing is recorded, and an Else with the given has_if_then is pushed
ElseOnlyPushed(has_if_then) ==
    /\ result'.output = result.output
    /\ result'.stack =
          Append(result.stack,
                 Branch("Else", has_if_then, round, LineAt(lines, round).valence))

\* C26 as stated: at every Else line, when the nearest branch that is not a
\* DelVar valence is an If-Then, that If-Then is removed from the stack, its
\* failure path is recorded as idx + 1 and an Else with has_if_then = true is
\* pushed; otherwise nothing is recorded and an Else with has_if_then = false
\* is pushed.
C26_ElseStep ==
    [][AtElse =>
         IF \E k \in 1..Len(result.stack) : NearestIsIfThen(result.stack, k)
         THEN \E k \in 1..Len(result.stack) :
                 NearestIsIfThen(result.stack, k) /\ ElseClosesIfThen(k)
         ELSE ElseOnlyPushed(FALSE)]_vars

\* C26 amended: the If-Then is removed and its failure path recorded only
\* when the Else is a statement of its own; an Else that is the valence of a
\* DelVar chain records nothing and removes nothing, and is pushed with
\* has_if_then = true all the same.
C26_ElseStepAmended ==
    [][AtElse =>
         IF \E k \in 1..Len(result.stack) : NearestIsIfThen(result.stack, k)
         THEN IF LineAt(lines, round).valence
              THEN ElseOnlyPushed(TRUE)
              ELSE \E k \in 1..Len(result.stack) :
                      NearestIsIfThen(result.stack, k) /\ ElseClosesIfThen(k)
         ELSE ElseOnlyPushed(FALSE)]_vars

\* an Else of its own has just closed an If-Then that lay under a DelVar
\* valence branch
C26_Witness ==
    /\ pc = "block_loop"
    /\ round = 4
    /\ lines[4] = Cmd("Else", FALSE)
    /\ Len(result.stack) = 2
    /\ result.stack[1].is_delvar_valence
    /\ result.stack[2] = Branch("Else", TRUE, 3, FALSE)
    /\ <<0, 4>> \in result.output


----------------------------------------------------------------------------
(* BinOp::opposite on every binary operator, and the swap of               *)
(* optimize_parentheses that uses it.                                      *)

\* the binary operator tokens of BinOp::recognize_precedence
BinaryOperatorTokens ==
    {60, 61, 64} \cup (106..111) \cup {TokAdd, TokSub, TokMul, TokDiv, 148, 149,
                                      TokPower, 241}

\* the operators the claim lists as having no opposite
WithoutOpposite == {TokSub, TokDiv, 148, 149, TokPower, 241}

\* the left operands hold only the variable A, the right operands only Ans
LeftOperands ==
    {NumericVarName(TokVarA)}
    \cup {Binary(k, NumericVarName(TokVarA), NumericVarName(TokVarA)) :
            k \in {TokAdd, TokSub, 106}}

RightOperands ==
    {OperandAns} \cup {Binary(k, OperandAns, OperandAns) : k \in {TokAdd, TokMul}}

InitOpposite ==
    /\ pc = "operator"
    /\ \E k \in BinaryOperatorTokens, l \in LeftOperands, r \in RightOperands :
          expr = Binary(k, l, r)
    /\ result = NoResult
    /\ tokens = <<>>
    /\ source = <<>>
    /\ lines = <<>>
    /\ lines0 = <<>>
    /\ item = NoFloat
    /\ config = NoConfig
    /\ strategy = ""
    /\ parsed = NumPanic
    /\ savings = 0
    /\ stripped = <<>>
    /\ round = 0

\* binop.opposite()
Opposite ==
    /\ pc = "operator"
    /\ pc' = "opposite"
    /\ result' = opposite(expr.kind)
    /\ UNCHANGED <<item, config, strategy, tokens, parsed, lines, lines0, expr, savings,
                   stripped, source, round>>

\* opposite() of the operator the first call returned
OppositeAgain ==
    /\ pc = "opposite"
    /\ ~result.none
    /\ pc' = "opposite_again"
    /\ result' = opposite(result.val)
    /\ UNCHANGED <<item, config, strategy, tokens, parsed, lines, lines0, expr, savings,
                   stripped, source, round>>

\* expr.optimize_parentheses(), the expression it leaves kept in result
OptimizeOperator ==
    /\ pc = "operator"
    /\ pc' = "operator_optimized"
    /\ result' = optimize_parentheses(expr).e
    /\ UNCHANGED <<item, config, strategy, tokens, parsed, lines, lines0, expr, savings,
                   stripped, source, round>>

NextOpposite == Opposite \/ OppositeAgain \/ OptimizeOperator

SpecOpposite == InitOpposite /\ [][NextOpposite]_vars

\* the operands at the leaves of an expression of binary operators
RECURSIVE Leaves(_)
Leaves(e) == IF IsBinary(e) THEN Leaves(e.left) \cup Leaves(e.right) ELSE {e}

\* C27: opposite is an involution (the opposite of the opposite of an
\* operator is the operator), and an expression of an operator without
\* opposite (-, /, nPr, nCr, ^, xroot) keeps its operator and the sides of
\* its operands through optimize_parentheses.
C27_OppositeIsInvolution ==
    /\ pc = "opposite_again" => result = Some(expr.kind)
    /\ (pc = "opposite" /\ expr.kind \in WithoutOpposite) => result = None
    /\ (pc = "operator_optimized" /\ expr.kind \in WithoutOpposite) =>
          /\ result.kind = expr.kind
          /\ Leaves(result.left) = Leaves(expr.left)
          /\ Leaves(result.right) = Leaves(expr.right)


\* C28: strip_closing_parenthesis is idempotent: applied to its own output
\* it removes nothing further.
C28_StripIsIdempotent ==
    pc = "stripped_again" => result.tokens = stripped


\* C29: every entry src -> dst of block_failure_paths has src < dst and
\* dst at most the number of lines, and the statement of line dst - 1, or
\* the valence statement of its DelVar chain, is an End or an Else.
C29_BlockPathsEndAtEndOrElse ==
    pc = "block_paths" =>
        \A p \in result.output :
            /\ p[1] < p[2]
            /\ p[2] <= Len(lines)
            /\ LineAt(lines, p[2] - 1).kind \in {"End", "Else"}

\* the map returned holds a path that ends after an Else and one that ends
\* after an End
C29_Witness ==
    /\ pc = "block_paths"
    /\ \E p \in result.output : LineAt(lines, p[2] - 1).kind = "Else"
    /\ \E p \in result.output : LineAt(lines, p[2] - 1).kind = "End"


\* C30: no line is a key of both simple_failure_paths and
\* block_failure_paths, so the assertion of failure_paths never fails and
\* the map returned is the union of the two maps.
C30_FailurePathsDisjoint ==
    /\ pc # "assertion_failed"
    /\ pc = "failure_paths" =>
          /\ {p[1] : p \in result.simple} \cap {p[1] : p \in result.block} = {}
          /\ result.output = result.simple \cup result.block

\* failure_paths has merged a simple path and a block path
C30_Witness ==
    /\ pc = "failure_paths"
    /\ result.simple # {}
    /\ result.block # {}
    /\ \E p \in result.simple : LineAt(lines, p[1]).kind = "If"

====
